---------------------------- MODULE Spec2Model ----------------------------
(***************************************************************************)
(* Model of the ECG interpretation backend:                                *)
(*   - interpreter/classifier.py      the rules-based classifier           *)
(*   - mapper/archetype_library.py    finding key -> archetype             *)
(*   - mapper/parameter_builder.py    the visualization contract           *)
(*   - mapper/uncertainty_engine.py   the uncertainty assessment           *)
(*   - agents/*.py                    the four agents and the orchestrator *)
(*                                                                         *)
(* Text that the code inspects (display names, warnings, statements of the *)
(* display contract) is a sequence of one-character strings, so that       *)
(* str.lower(), "in" and startswith are computed rather than assumed.      *)
(* "EMDASH" stands for U+2014 and "DEG" for U+00B0.                        *)
(*                                                                         *)
(* Units: probabilities inside the classifier are integers in 1/120        *)
(* (every checker yields met/n * gate with n in {2,3,4,6} and gate a       *)
(* multiple of 0.1); emitted probabilities are integers in 1/1000, the     *)
(* result of round(p, 3).  ST deviations and T amplitudes are in 1/1000 mV *)
(* (the measurement engine rounds them to 3 decimals), confidences in      *)
(* percent.                                                                *)
(***************************************************************************)
EXTENDS Integers, Sequences, FiniteSets, TLC

VARIABLES
    pc,             \* position of Orchestrator.run
    request,        \* the input of the run: "image", "pdf" or "none"
    stage_status,   \* per stage of this run: "ok", "failed", "crashed", "skipped"
    ecg_output,     \* ECGSpecialistOutput
    cardio_output,  \* CardiologistOutput
    physio_output,  \* PhysiologistOutput
    artist_output,  \* ArtistOutput
    invoked,        \* the agents whose process() was called in this run
    timings,        \* keys of the timings dict
    errors,         \* the errors dict: stage name -> text
    warnings,       \* the warnings list
    degraded,       \* the local flag of run
    result,         \* the returned PipelineResult (<< >> before the return)
    raised,         \* TRUE when an exception left run
    cm,             \* classify: the Measurements argument; a unit call: [op, arg]
    cfailed,        \* classify: the checkers that raise
    cpc,            \* classify: "input" or "done"; a unit call: "call" or "returned"
    cout,           \* what classify or the unit returned (<< >> before)
    store,          \* InMemorySessionStore._store: the entries in insertion order
    max_sessions,   \* InMemorySessionStore._max
    recency,        \* history: the stored ids, the least recently saved or loaded first
    last_call,      \* history: the last call on the store, with the state before it
    frames,         \* concurrent runs: per thread, the locals of its suspended run
    current,        \* concurrent runs: the thread that the variables of run belong to
    tables,         \* the module-level tables that every run reads
    grid,           \* a call of remove_grid_combined: crops, position, attempts, return
    medical         \* a call of MedicalOrchestrator.coordinate_simulation

vars == <<pc, request, stage_status, ecg_output, cardio_output, physio_output,
          artist_output, invoked, timings, errors, warnings, degraded, result,
          raised, cm, cfailed, cpc, cout, store, max_sessions, recency, last_call,
          frames, current, tables, grid, medical>>

pipeline_vars == <<pc, request, stage_status, ecg_output, cardio_output,
                   physio_output, artist_output, invoked, timings, errors,
                   warnings, degraded, result, raised>>

classify_vars == <<cm, cfailed, cpc, cout>>

store_vars == <<store, max_sessions, recency, last_call>>

\* the variables of the services beside the pipeline
thread_vars == <<frames, current, tables>>

service_vars == <<store_vars, thread_vars, grid, medical>>

StoreIdle ==
    /\ store = << >>
    /\ max_sessions = 0
    /\ recency = << >>
    /\ last_call = << >>

ThreadsIdle ==
    /\ frames = << >>
    /\ current = "main"
    /\ tables = << >>

GridIdle == grid = << >>

MedicalIdle == medical = << >>

ServiceIdle == StoreIdle /\ ThreadsIdle /\ GridIdle /\ MedicalIdle

-----------------------------------------------------------------------------
(* Text *)

\* str.lower() on one character
LowerChar(c) ==
    LET upper == <<"A","B","C","D","E","F","G","H","I","J","K","L","M",
                   "N","O","P","Q","R","S","T","U","V","W","X","Y","Z">>
        lower == <<"a","b","c","d","e","f","g","h","i","j","k","l","m",
                   "n","o","p","q","r","s","t","u","v","w","x","y","z">>
    IN  IF \E i \in DOMAIN upper : upper[i] = c
        THEN lower[CHOOSE i \in DOMAIN upper : upper[i] = c]
        ELSE c

\* str.lower()
Lower(s) == [i \in DOMAIN s |-> LowerChar(s[i])]

\* sub in s
Contains(s, sub) ==
    \E k \in 0..(Len(s) - Len(sub)) :
        \A i \in 1..Len(sub) : s[k + i] = sub[i]

\* s.startswith(p)
StartsWith(s, p) ==
    /\ Len(p) <= Len(s)
    /\ \A i \in 1..Len(p) : s[i] = p[i]

\* str(n) for n >= 0
RECURSIVE IntToStr(_)
IntToStr(n) ==
    LET digits == <<"0","1","2","3","4","5","6","7","8","9">>
    IN  IF n < 10 THEN <<digits[n + 1]>>
        ELSE IntToStr(n \div 10) \o <<digits[(n % 10) + 1]>>

\* f"{x:.0%}" for a fraction given in percent
FormatPercent(pct) == IntToStr(pct) \o <<"%">>

-----------------------------------------------------------------------------
(* models/schemas.py *)

None == << >>
Some(x) == <<x>>
IsNone(o) == o = << >>
Get(o) == o[1]

MeasurementValue(value, method, confidence) ==
    [value |-> value, method |-> method, confidence |-> confidence]

-----------------------------------------------------------------------------
(* interpreter/classifier.py: helpers *)

ProbScale == 12 * 10

\* num/den as a probability in 1/ProbScale
Frac(num, den) == (num * ProbScale) \div den

\* met / len(criteria) * gate, gate given in tenths
BaseProbability(criteria, gate10) ==
    LET met == Cardinality({i \in DOMAIN criteria : criteria[i]})
    IN  (met * gate10 * (ProbScale \div 10)) \div Len(criteria)

\* round(p, 3), in 1/1000
Round3(p) == (p * 2000 + ProbScale) \div (2 * ProbScale)

st_elevation_in_leads_strict(m, lead_names, threshold) ==
    LET Hit(st) == st.lead_name \in lead_names /\ st.deviation_mv > threshold
    IN  Cardinality({i \in DOMAIN m.st_deviations : Hit(m.st_deviations[i])}) >= 2
st_elevation_in_leads(m, lead_names, threshold) ==
    LET Hit(st) == st.lead_name \in lead_names /\ st.deviation_mv >= threshold
    IN  Cardinality({i \in DOMAIN m.st_deviations : Hit(m.st_deviations[i])}) >= 2

st_depression_in_leads(m, lead_names, threshold) ==
    LET Hit(st) == st.lead_name \in lead_names /\ st.deviation_mv <= -threshold
    IN  Cardinality({i \in DOMAIN m.st_deviations : Hit(m.st_deviations[i])}) >= 2

t_inverted_in_leads(m, lead_names) ==
    LET Hit(tw) == tw.lead_name \in lead_names /\ tw.polarity = "inverted"
    IN  Cardinality({i \in DOMAIN m.t_wave_details : Hit(m.t_wave_details[i])}) >= 2

get_st_deviation(m, lead_name) ==
    LET hits == {i \in DOMAIN m.st_deviations :
                    m.st_deviations[i].lead_name = lead_name}
    IN  IF hits = {} THEN 0
        ELSE m.st_deviations[CHOOSE i \in hits : \A j \in hits : i <= j].deviation_mv

p_waves_present(m) ==
    \E i \in DOMAIN m.p_waves :
        m.p_waves[i].lead_name = "II" /\ m.p_waves[i].detected

p_waves_absent(m) == ~ p_waves_present(m)

-----------------------------------------------------------------------------
(* interpreter/classifier.py: display names *)

DisplayName ==
    [ normal_sinus            |-> <<"N","o","r","m","a","l"," ","s","i","n","u","s"," ","r","h","y","t","h","m">>,
      sinus_tachycardia       |-> <<"P","a","t","t","e","r","n"," ","c","o","n","s","i","s","t","e","n","t"," ","w","i","t","h"," ","s","i","n","u","s"," ","t","a","c","h","y","c","a","r","d","i","a">>,
      sinus_bradycardia       |-> <<"P","a","t","t","e","r","n"," ","c","o","n","s","i","s","t","e","n","t"," ","w","i","t","h"," ","s","i","n","u","s"," ","b","r","a","d","y","c","a","r","d","i","a">>,
      atrial_fibrillation     |-> <<"P","a","t","t","e","r","n"," ","c","o","n","s","i","s","t","e","n","t"," ","w","i","t","h"," ","a","t","r","i","a","l"," ","f","i","b","r","i","l","l","a","t","i","o","n">>,
      atrial_flutter          |-> <<"P","a","t","t","e","r","n"," ","c","o","n","s","i","s","t","e","n","t"," ","w","i","t","h"," ","a","t","r","i","a","l"," ","f","l","u","t","t","e","r">>,
      svt                     |-> <<"P","a","t","t","e","r","n"," ","c","o","n","s","i","s","t","e","n","t"," ","w","i","t","h"," ","s","u","p","r","a","v","e","n","t","r","i","c","u","l","a","r"," ","t","a","c","h","y","c","a","r","d","i","a">>,
      rbbb                    |-> <<"P","a","t","t","e","r","n"," ","c","o","n","s","i","s","t","e","n","t"," ","w","i","t","h"," ","r","i","g","h","t"," ","b","u","n","d","l","e"," ","b","r","a","n","c","h"," ","b","l","o","c","k">>,
      lbbb                    |-> <<"P","a","t","t","e","r","n"," ","c","o","n","s","i","s","t","e","n","t"," ","w","i","t","h"," ","l","e","f","t"," ","b","u","n","d","l","e"," ","b","r","a","n","c","h"," ","b","l","o","c","k">>,
      lafb                    |-> <<"P","a","t","t","e","r","n"," ","c","o","n","s","i","s","t","e","n","t"," ","w","i","t","h"," ","l","e","f","t"," ","a","n","t","e","r","i","o","r"," ","f","a","s","c","i","c","u","l","a","r"," ","b","l","o","c","k">>,
      lpfb                    |-> <<"P","a","t","t","e","r","n"," ","c","o","n","s","i","s","t","e","n","t"," ","w","i","t","h"," ","l","e","f","t"," ","p","o","s","t","e","r","i","o","r"," ","f","a","s","c","i","c","u","l","a","r"," ","b","l","o","c","k">>,
      first_degree_av_block   |-> <<"P","a","t","t","e","r","n"," ","c","o","n","s","i","s","t","e","n","t"," ","w","i","t","h"," ","f","i","r","s","t"," ","d","e","g","r","e","e"," ","A","V"," ","b","l","o","c","k">>,
      second_degree_mobitz_i  |-> <<"F","i","n","d","i","n","g"," ","s","u","g","g","e","s","t","i","v","e"," ","o","f"," ","s","e","c","o","n","d"," ","d","e","g","r","e","e"," ","A","V"," ","b","l","o","c","k",","," ","M","o","b","i","t","z"," ","t","y","p","e"," ","I"," ","(","W","e","n","c","k","e","b","a","c","h",")">>,
      second_degree_mobitz_ii |-> <<"F","i","n","d","i","n","g"," ","s","u","g","g","e","s","t","i","v","e"," ","o","f"," ","s","e","c","o","n","d"," ","d","e","g","r","e","e"," ","A","V"," ","b","l","o","c","k",","," ","M","o","b","i","t","z"," ","t","y","p","e"," ","I","I">>,
      third_degree_av_block   |-> <<"P","a","t","t","e","r","n"," ","c","o","n","s","i","s","t","e","n","t"," ","w","i","t","h"," ","t","h","i","r","d"," ","d","e","g","r","e","e"," ","(","c","o","m","p","l","e","t","e",")"," ","A","V"," ","b","l","o","c","k">>,
      wpw                     |-> <<"P","a","t","t","e","r","n"," ","c","o","n","s","i","s","t","e","n","t"," ","w","i","t","h"," ","W","o","l","f","f","-","P","a","r","k","i","n","s","o","n","-","W","h","i","t","e">>,
      lvh                     |-> <<"F","i","n","d","i","n","g"," ","s","u","g","g","e","s","t","i","v","e"," ","o","f"," ","l","e","f","t"," ","v","e","n","t","r","i","c","u","l","a","r"," ","h","y","p","e","r","t","r","o","p","h","y">>,
      rvh                     |-> <<"F","i","n","d","i","n","g"," ","s","u","g","g","e","s","t","i","v","e"," ","o","f"," ","r","i","g","h","t"," ","v","e","n","t","r","i","c","u","l","a","r"," ","h","y","p","e","r","t","r","o","p","h","y">>,
      inferior_stemi          |-> <<"P","a","t","t","e","r","n"," ","c","o","n","s","i","s","t","e","n","t"," ","w","i","t","h"," ","a","c","u","t","e"," ","i","n","f","e","r","i","o","r"," ","S","T","-","e","l","e","v","a","t","i","o","n"," ","m","y","o","c","a","r","d","i","a","l"," ","i","n","j","u","r","y">>,
      anterior_stemi          |-> <<"P","a","t","t","e","r","n"," ","c","o","n","s","i","s","t","e","n","t"," ","w","i","t","h"," ","a","c","u","t","e"," ","a","n","t","e","r","i","o","r"," ","S","T","-","e","l","e","v","a","t","i","o","n"," ","m","y","o","c","a","r","d","i","a","l"," ","i","n","j","u","r","y">>,
      lateral_stemi           |-> <<"P","a","t","t","e","r","n"," ","c","o","n","s","i","s","t","e","n","t"," ","w","i","t","h"," ","a","c","u","t","e"," ","l","a","t","e","r","a","l"," ","S","T","-","e","l","e","v","a","t","i","o","n"," ","m","y","o","c","a","r","d","i","a","l"," ","i","n","j","u","r","y">>,
      posterior_stemi         |-> <<"P","a","t","t","e","r","n"," ","c","o","n","s","i","s","t","e","n","t"," ","w","i","t","h"," ","a","c","u","t","e"," ","p","o","s","t","e","r","i","o","r"," ","S","T","-","e","l","e","v","a","t","i","o","n"," ","m","y","o","c","a","r","d","i","a","l"," ","i","n","j","u","r","y">>,
      nstemi                  |-> <<"P","a","t","t","e","r","n"," ","c","o","n","s","i","s","t","e","n","t"," ","w","i","t","h"," ","n","o","n","-","S","T","-","e","l","e","v","a","t","i","o","n"," ","m","y","o","c","a","r","d","i","a","l"," ","i","n","j","u","r","y">>,
      early_repolarization    |-> <<"P","a","t","t","e","r","n"," ","c","o","n","s","i","s","t","e","n","t"," ","w","i","t","h"," ","e","a","r","l","y"," ","r","e","p","o","l","a","r","i","z","a","t","i","o","n">>,
      pericarditis            |-> <<"P","a","t","t","e","r","n"," ","c","o","n","s","i","s","t","e","n","t"," ","w","i","t","h"," ","p","e","r","i","c","a","r","d","i","t","i","s">>,
      digitalis_effect        |-> <<"P","a","t","t","e","r","n"," ","c","o","n","s","i","s","t","e","n","t"," ","w","i","t","h"," ","d","i","g","i","t","a","l","i","s"," ","e","f","f","e","c","t">>,
      hypokalemia             |-> <<"P","a","t","t","e","r","n"," ","c","o","n","s","i","s","t","e","n","t"," ","w","i","t","h"," ","h","y","p","o","k","a","l","e","m","i","a">>,
      hyperkalemia            |-> <<"P","a","t","t","e","r","n"," ","c","o","n","s","i","s","t","e","n","t"," ","w","i","t","h"," ","h","y","p","e","r","k","a","l","e","m","i","a">> ]


\* FindingCandidate.tests of each checker
TESTS ==
    [
      normal_sinus |-> <<  >>,
      sinus_tachycardia |-> << <<"C","l","i","n","i","c","a","l"," ","c","o","r","r","e","l","a","t","i","o","n">>, <<"T","h","y","r","o","i","d"," ","f","u","n","c","t","i","o","n"," ","t","e","s","t","s"," ","i","f"," ","p","e","r","s","i","s","t","e","n","t">> >>,
      sinus_bradycardia |-> << <<"M","e","d","i","c","a","t","i","o","n"," ","r","e","v","i","e","w">>, <<"T","h","y","r","o","i","d"," ","f","u","n","c","t","i","o","n"," ","t","e","s","t","s">> >>,
      atrial_fibrillation |-> << <<"E","c","h","o","c","a","r","d","i","o","g","r","a","m">>, <<"T","h","y","r","o","i","d"," ","f","u","n","c","t","i","o","n">>, <<"C","H","A","2","D","S","2","-","V","A","S","c"," ","s","c","o","r","i","n","g">> >>,
      atrial_flutter |-> << <<"A","d","e","n","o","s","i","n","e"," ","c","h","a","l","l","e","n","g","e"," ","t","o"," ","u","n","m","a","s","k"," ","f","l","u","t","t","e","r"," ","w","a","v","e","s">>, <<"E","c","h","o","c","a","r","d","i","o","g","r","a","m">> >>,
      svt |-> << <<"A","d","e","n","o","s","i","n","e"," ","t","r","i","a","l">>, <<"E","l","e","c","t","r","o","p","h","y","s","i","o","l","o","g","y"," ","s","t","u","d","y"," ","i","f"," ","r","e","c","u","r","r","e","n","t">> >>,
      rbbb |-> << <<"E","c","h","o","c","a","r","d","i","o","g","r","a","m"," ","t","o"," ","a","s","s","e","s","s"," ","R","V"," ","f","u","n","c","t","i","o","n">> >>,
      lbbb |-> << <<"E","c","h","o","c","a","r","d","i","o","g","r","a","m">>, <<"A","s","s","e","s","s"," ","f","o","r"," ","c","a","r","d","i","a","c"," ","r","e","s","y","n","c","h","r","o","n","i","z","a","t","i","o","n"," ","t","h","e","r","a","p","y"," ","c","a","n","d","i","d","a","c","y">> >>,
      lafb |-> << <<"E","c","h","o","c","a","r","d","i","o","g","r","a","m"," ","i","f"," ","n","e","w"," ","f","i","n","d","i","n","g">> >>,
      lpfb |-> << <<"R","u","l","e"," ","o","u","t"," ","R","V","H",","," ","l","a","t","e","r","a","l"," ","M","I",","," ","c","h","r","o","n","i","c"," ","l","u","n","g"," ","d","i","s","e","a","s","e">> >>,
      first_degree_av_block |-> << <<"M","o","n","i","t","o","r"," ","f","o","r"," ","p","r","o","g","r","e","s","s","i","o","n">>, <<"R","e","v","i","e","w"," ","m","e","d","i","c","a","t","i","o","n","s"," ","(","b","e","t","a","-","b","l","o","c","k","e","r","s",","," ","C","C","B","s",","," ","d","i","g","o","x","i","n",")">> >>,
      second_degree_mobitz_i |-> << <<"C","o","n","t","i","n","u","o","u","s"," ","t","e","l","e","m","e","t","r","y"," ","m","o","n","i","t","o","r","i","n","g">>, <<"A","s","s","e","s","s"," ","f","o","r"," ","r","e","v","e","r","s","i","b","l","e"," ","c","a","u","s","e","s">> >>,
      second_degree_mobitz_ii |-> << <<"U","r","g","e","n","t"," ","c","a","r","d","i","o","l","o","g","y"," ","c","o","n","s","u","l","t","a","t","i","o","n">>, <<"P","r","e","p","a","r","e"," ","f","o","r"," ","p","o","s","s","i","b","l","e"," ","p","a","c","i","n","g">> >>,
      third_degree_av_block |-> << <<"I","m","m","e","d","i","a","t","e"," ","c","a","r","d","i","o","l","o","g","y"," ","c","o","n","s","u","l","t","a","t","i","o","n">>, <<"T","r","a","n","s","c","u","t","a","n","e","o","u","s"," ","p","a","c","i","n","g"," ","r","e","a","d","i","n","e","s","s">> >>,
      wpw |-> << <<"E","l","e","c","t","r","o","p","h","y","s","i","o","l","o","g","y"," ","s","t","u","d","y">>, <<"A","v","o","i","d"," ","A","V"," ","n","o","d","a","l"," ","b","l","o","c","k","i","n","g"," ","a","g","e","n","t","s"," ","i","f"," ","c","o","n","f","i","r","m","e","d">> >>,
      lvh |-> << <<"E","c","h","o","c","a","r","d","i","o","g","r","a","m"," ","f","o","r"," ","w","a","l","l"," ","t","h","i","c","k","n","e","s","s"," ","m","e","a","s","u","r","e","m","e","n","t">> >>,
      rvh |-> << <<"E","c","h","o","c","a","r","d","i","o","g","r","a","m">>, <<"C","o","n","s","i","d","e","r"," ","p","u","l","m","o","n","a","r","y"," ","e","v","a","l","u","a","t","i","o","n">> >>,
      inferior_stemi |-> << <<"E","m","e","r","g","e","n","t"," ","c","a","r","d","i","a","c"," ","c","a","t","h","e","t","e","r","i","z","a","t","i","o","n">>, <<"S","e","r","i","a","l"," ","t","r","o","p","o","n","i","n","s">>, <<"R","i","g","h","t","-","s","i","d","e","d"," ","l","e","a","d","s"," ","t","o"," ","a","s","s","e","s","s"," ","R","V"," ","i","n","v","o","l","v","e","m","e","n","t">> >>,
      anterior_stemi |-> << <<"E","m","e","r","g","e","n","t"," ","c","a","r","d","i","a","c"," ","c","a","t","h","e","t","e","r","i","z","a","t","i","o","n">>, <<"S","e","r","i","a","l"," ","t","r","o","p","o","n","i","n","s">> >>,
      lateral_stemi |-> << <<"E","m","e","r","g","e","n","t"," ","c","a","r","d","i","a","c"," ","c","a","t","h","e","t","e","r","i","z","a","t","i","o","n">>, <<"S","e","r","i","a","l"," ","t","r","o","p","o","n","i","n","s">> >>,
      posterior_stemi |-> << <<"P","o","s","t","e","r","i","o","r"," ","l","e","a","d","s"," ","(","V","7","-","V","9",")">>, <<"E","m","e","r","g","e","n","t"," ","c","a","r","d","i","a","c"," ","c","a","t","h","e","t","e","r","i","z","a","t","i","o","n">> >>,
      nstemi |-> << <<"S","e","r","i","a","l"," ","t","r","o","p","o","n","i","n","s">>, <<"C","a","r","d","i","o","l","o","g","y"," ","c","o","n","s","u","l","t","a","t","i","o","n">>, <<"R","i","s","k"," ","s","t","r","a","t","i","f","i","c","a","t","i","o","n"," ","(","T","I","M","I","/","G","R","A","C","E",")">> >>,
      early_repolarization |-> << <<"C","l","i","n","i","c","a","l"," ","c","o","r","r","e","l","a","t","i","o","n"," ","EMDASH"," ","t","y","p","i","c","a","l","l","y"," ","b","e","n","i","g","n"," ","i","n"," ","y","o","u","n","g"," ","p","a","t","i","e","n","t","s">> >>,
      pericarditis |-> << <<"I","n","f","l","a","m","m","a","t","o","r","y"," ","m","a","r","k","e","r","s"," ","(","C","R","P",","," ","E","S","R",")">>, <<"E","c","h","o","c","a","r","d","i","o","g","r","a","m"," ","f","o","r"," ","e","f","f","u","s","i","o","n">>, <<"S","e","r","i","a","l"," ","E","C","G","s"," ","f","o","r"," ","s","t","a","g","e"," ","p","r","o","g","r","e","s","s","i","o","n">> >>,
      digitalis_effect |-> << <<"D","i","g","o","x","i","n"," ","l","e","v","e","l">>, <<"R","e","v","i","e","w"," ","m","e","d","i","c","a","t","i","o","n"," ","l","i","s","t">> >>,
      hypokalemia |-> << <<"S","t","a","t"," ","p","o","t","a","s","s","i","u","m"," ","l","e","v","e","l">>, <<"M","a","g","n","e","s","i","u","m"," ","l","e","v","e","l">> >>,
      hyperkalemia |-> << <<"S","t","a","t"," ","p","o","t","a","s","s","i","u","m"," ","l","e","v","e","l">>, <<"S","t","a","t"," ","c","a","l","c","i","u","m"," ","i","f"," ","s","e","v","e","r","e"," ","E","C","G"," ","c","h","a","n","g","e","s">>, <<"R","e","n","a","l"," ","f","u","n","c","t","i","o","n"," ","a","s","s","e","s","s","m","e","n","t">> >> ]

FindingCandidate_diagnosed(name, criteria, gate10) ==
    [ name             |-> name,
      display_name     |-> <<"D","i","a","g","n","o","s","e","d",":"," ">> \o DisplayName[name],
      tests            |-> TESTS[name],
      criteria         |-> criteria,
      base_probability |-> BaseProbability(criteria, gate10) ]
FindingCandidate(name, criteria, gate10) ==
    [ name             |-> name,
      display_name     |-> DisplayName[name],
      tests            |-> TESTS[name],
      criteria         |-> criteria,
      base_probability |-> BaseProbability(criteria, gate10) ]

-----------------------------------------------------------------------------
(* interpreter/classifier.py: the 27 checkers *)

PrNormal(m) ==
    ~ IsNone(m.pr_interval)
    /\ 120 <= Get(m.pr_interval).value /\ Get(m.pr_interval).value <= 200

check_normal_sinus(m) ==
    FindingCandidate("normal_sinus",
        << 60 <= m.rate.value /\ m.rate.value <= 100,
           m.rhythm_regular,
           p_waves_present(m),
           PrNormal(m),
           IF m.qrs_duration.value > 0 THEN m.qrs_duration.value < 120 ELSE FALSE,
           -30 <= m.axis_degrees.value /\ m.axis_degrees.value <= 90 >>,
        10)

check_sinus_tachycardia(m) ==
    FindingCandidate("sinus_tachycardia",
        << m.rate.value > 100,
           m.rhythm_regular,
           p_waves_present(m),
           PrNormal(m) >>,
        10)

check_sinus_bradycardia(m) ==
    FindingCandidate("sinus_bradycardia",
        << m.rate.value < 60 /\ m.rate.value > 0,
           m.rhythm_regular,
           p_waves_present(m) >>,
        10)

check_atrial_fibrillation(m) ==
    FindingCandidate("atrial_fibrillation",
        << ~ m.rhythm_regular,
           p_waves_absent(m),
           ~ m.rhythm_regular >>,
        10)

check_atrial_flutter(m) ==
    LET typical_flutter_rate ==
            m.rate.value > 0
            /\ \/ (140 <= m.rate.value /\ m.rate.value <= 160)
               \/ (90 <= m.rate.value /\ m.rate.value <= 110)
               \/ (70 <= m.rate.value /\ m.rate.value <= 80)
    IN  FindingCandidate("atrial_flutter",
            << TRUE, typical_flutter_rate, FALSE >>,
            7)

check_svt(m) ==
    FindingCandidate("svt",
        << m.rate.value > 150,
           m.rhythm_regular,
           m.qrs_duration.value < 120 /\ m.qrs_duration.value > 0,
           p_waves_absent(m) >>,
        10)

check_rbbb(m) ==
    LET wide_qrs == m.qrs_duration.value >= 120 /\ m.qrs_duration.value > 0
        v1_terminal_positive ==
            \E i \in DOMAIN m.t_wave_details :
                /\ m.t_wave_details[i].lead_name = "V1"
                /\ m.t_wave_details[i].polarity = "inverted"
    IN  FindingCandidate("rbbb",
            << wide_qrs, v1_terminal_positive, TRUE >>,
            8)

check_lbbb(m) ==
    LET wide_qrs == m.qrs_duration.value >= 120 /\ m.qrs_duration.value > 0
    IN  FindingCandidate("lbbb",
            << wide_qrs, TRUE, TRUE, TRUE >>,
            IF wide_qrs THEN 9 ELSE 1)

check_lafb(m) ==
    LET left_axis  == m.axis_degrees.value < -30
        narrow_qrs == m.qrs_duration.value < 120 /\ m.qrs_duration.value > 0
    IN  FindingCandidate("lafb",
            << left_axis, narrow_qrs, TRUE, TRUE >>,
            IF left_axis THEN 9 ELSE 1)

check_lpfb(m) ==
    LET right_axis == m.axis_degrees.value > 90
        narrow_qrs == m.qrs_duration.value < 120 /\ m.qrs_duration.value > 0
    IN  FindingCandidate("lpfb",
            << right_axis, narrow_qrs, ~ m.rvh_voltage_criteria >>,
            IF right_axis THEN 8 ELSE 1)

check_first_degree_av_block(m) ==
    LET prolonged_pr == ~ IsNone(m.pr_interval) /\ Get(m.pr_interval).value > 200
    IN  FindingCandidate("first_degree_av_block",
            << prolonged_pr, m.rhythm_regular, p_waves_present(m) >>,
            IF prolonged_pr THEN 9 ELSE 0)

check_second_degree_mobitz_i(m) ==
    FindingCandidate("second_degree_mobitz_i",
        << ~ m.rhythm_regular, p_waves_present(m), FALSE >>,
        4)

check_second_degree_mobitz_ii(m) ==
    FindingCandidate("second_degree_mobitz_ii",
        << ~ m.rhythm_regular,
           TRUE,
           p_waves_present(m),
           IF m.qrs_duration.value > 0 THEN m.qrs_duration.value >= 120 ELSE FALSE >>,
        3)

check_third_degree_av_block(m) ==
    LET slow_rate == m.rate.value > 0 /\ m.rate.value < 50
    IN  FindingCandidate("third_degree_av_block",
            << m.rhythm_regular, TRUE, FALSE, slow_rate >>,
            IF slow_rate THEN 6 ELSE 1)

check_wpw(m) ==
    LET short_pr == ~ IsNone(m.pr_interval) /\ Get(m.pr_interval).value < 120
        wide_qrs == m.qrs_duration.value > 100 /\ m.qrs_duration.value > 0
    IN  FindingCandidate("wpw",
            << short_pr, FALSE, wide_qrs >>,
            IF short_pr THEN 7 ELSE 1)

check_lvh(m) ==
    FindingCandidate("lvh",
        << m.lvh_voltage_criteria,
           m.axis_degrees.value < -15,
           t_inverted_in_leads(m, {"I", "aVL", "V5", "V6"}) >>,
        IF m.lvh_voltage_criteria THEN 9 ELSE 2)

check_rvh(m) ==
    FindingCandidate("rvh",
        << m.rvh_voltage_criteria,
           m.axis_degrees.value > 90,
           t_inverted_in_leads(m, {"V1", "V2", "V3"}) >>,
        10)

check_inferior_stemi(m) ==
    LET inf_elevation == st_elevation_in_leads(m, {"II", "III", "aVF"}, 100)
        reciprocal    == st_depression_in_leads(m, {"I", "aVL"}, 100)
    IN  FindingCandidate("inferior_stemi",
            << inf_elevation, reciprocal, TRUE >>,
            IF inf_elevation THEN 9 ELSE 0)

check_anterior_stemi(m) ==
    LET ant_elevation == st_elevation_in_leads(m, {"V1", "V2", "V3", "V4"}, 100)
        reciprocal    == st_depression_in_leads(m, {"II", "III", "aVF"}, 100)
    IN  FindingCandidate("anterior_stemi",
            << ant_elevation, reciprocal >>,
            IF ant_elevation THEN 9 ELSE 0)

check_lateral_stemi(m) ==
    LET lat_elevation == st_elevation_in_leads(m, {"I", "aVL", "V5", "V6"}, 100)
    IN  FindingCandidate("lateral_stemi",
            << lat_elevation,
               st_depression_in_leads(m, {"II", "III", "aVF"}, 100) >>,
            IF lat_elevation THEN 9 ELSE 0)

check_posterior_stemi(m) ==
    LET ant_depression == st_depression_in_leads(m, {"V1", "V2", "V3"}, 100)
    IN  FindingCandidate("posterior_stemi",
            << ant_depression, TRUE, TRUE >>,
            IF ant_depression THEN 7 ELSE 0)

check_nstemi(m) ==
    LET any_depression ==
            \E i \in DOMAIN m.st_deviations : m.st_deviations[i].deviation_mv < -50
        t_inversion ==
            \E i \in DOMAIN m.t_wave_details :
                /\ m.t_wave_details[i].lead_name \in
                       {"I", "II", "aVL", "V2", "V3", "V4", "V5", "V6"}
                /\ m.t_wave_details[i].polarity = "inverted"
        any_elevation ==
            \E i \in DOMAIN m.st_deviations : m.st_deviations[i].deviation_mv > 100
    IN  FindingCandidate("nstemi",
            << any_depression, t_inversion, ~ any_elevation >>,
            5)

check_early_repolarization(m) ==
    LET precordial_elevation ==
            st_elevation_in_leads(m, {"V2", "V3", "V4", "V5"}, 100)
    IN  FindingCandidate("early_repolarization",
            << precordial_elevation, TRUE, TRUE >>,
            5)

check_pericarditis(m) ==
    LET Elevated(st) == st.deviation_mv > 50
        diffuse_elevation == Cardinality({i \in DOMAIN m.st_deviations : Elevated(m.st_deviations[i])}) >= 4
        pr_depression ==
            get_st_deviation(m, "II") > 0 /\ get_st_deviation(m, "aVR") < 0
    IN  FindingCandidate("pericarditis",
            << diffuse_elevation, pr_depression, get_st_deviation(m, "aVR") <= 0 >>,
            IF diffuse_elevation THEN 7 ELSE 1)

check_digitalis_effect(m) ==
    LET Depressed(st) == st.deviation_mv < -50
        st_depression_multiple == Cardinality({i \in DOMAIN m.st_deviations : Depressed(m.st_deviations[i])}) >= 3
        short_qt == m.qt_interval.value > 0 /\ m.qt_interval.value < 360
    IN  FindingCandidate("digitalis_effect",
            << st_depression_multiple,
               short_qt,
               IF m.rate.value > 0 THEN m.rate.value < 65 ELSE FALSE >>,
            5)

check_hypokalemia(m) ==
    LET Flat(tw) == tw.polarity = "flat"
        Depressed(st) == st.deviation_mv < -50
        flat_t == Cardinality({i \in DOMAIN m.t_wave_details : Flat(m.t_wave_details[i])}) >= 2
        prolonged_qt ==
            IF m.qtc_bazett.value > 0 THEN m.qtc_bazett.value > 480 ELSE FALSE
        st_dep == Cardinality({i \in DOMAIN m.st_deviations : Depressed(m.st_deviations[i])}) >= 2
    IN  FindingCandidate("hypokalemia",
            << flat_t, prolonged_qt, st_dep, FALSE >>,
            5)

check_hyperkalemia(m) ==
    LET Peaked(tw) == ~ IsNone(tw.amplitude_mv) /\ Get(tw.amplitude_mv) > 500
        wide_qrs ==
            IF m.qrs_duration.value > 0 THEN m.qrs_duration.value > 120 ELSE FALSE
        peaked_t == Cardinality({i \in DOMAIN m.t_wave_details : Peaked(m.t_wave_details[i])}) >= 2
    IN  FindingCandidate("hyperkalemia",
            << peaked_t,
               wide_qrs,
               p_waves_absent(m),
               m.qt_interval.value > 0 /\ m.qt_interval.value < 360 >>,
            6)

-----------------------------------------------------------------------------
(* interpreter/classifier.py: classify *)

ALL_CHECKERS ==
    << "normal_sinus", "sinus_tachycardia", "sinus_bradycardia",
       "atrial_fibrillation", "atrial_flutter", "svt", "rbbb", "lbbb", "lafb",
       "lpfb", "first_degree_av_block", "second_degree_mobitz_i",
       "second_degree_mobitz_ii", "third_degree_av_block", "wpw", "lvh", "rvh",
       "inferior_stemi", "anterior_stemi", "lateral_stemi", "posterior_stemi",
       "nstemi", "early_repolarization", "pericarditis", "digitalis_effect",
       "hypokalemia", "hyperkalemia" >>

CheckerNames == {ALL_CHECKERS[i] : i \in DOMAIN ALL_CHECKERS}

\* checker(measurements), for the checker of the given finding
RunChecker(name, m) ==
    CASE name = "normal_sinus"            -> check_normal_sinus(m)
      [] name = "sinus_tachycardia"       -> check_sinus_tachycardia(m)
      [] name = "sinus_bradycardia"       -> check_sinus_bradycardia(m)
      [] name = "atrial_fibrillation"     -> check_atrial_fibrillation(m)
      [] name = "atrial_flutter"          -> check_atrial_flutter(m)
      [] name = "svt"                     -> check_svt(m)
      [] name = "rbbb"                    -> check_rbbb(m)
      [] name = "lbbb"                    -> check_lbbb(m)
      [] name = "lafb"                    -> check_lafb(m)
      [] name = "lpfb"                    -> check_lpfb(m)
      [] name = "first_degree_av_block"   -> check_first_degree_av_block(m)
      [] name = "second_degree_mobitz_i"  -> check_second_degree_mobitz_i(m)
      [] name = "second_degree_mobitz_ii" -> check_second_degree_mobitz_ii(m)
      [] name = "third_degree_av_block"   -> check_third_degree_av_block(m)
      [] name = "wpw"                     -> check_wpw(m)
      [] name = "lvh"                     -> check_lvh(m)
      [] name = "rvh"                     -> check_rvh(m)
      [] name = "inferior_stemi"          -> check_inferior_stemi(m)
      [] name = "anterior_stemi"          -> check_anterior_stemi(m)
      [] name = "lateral_stemi"           -> check_lateral_stemi(m)
      [] name = "posterior_stemi"         -> check_posterior_stemi(m)
      [] name = "nstemi"                  -> check_nstemi(m)
      [] name = "early_repolarization"    -> check_early_repolarization(m)
      [] name = "pericarditis"            -> check_pericarditis(m)
      [] name = "digitalis_effect"        -> check_digitalis_effect(m)
      [] name = "hypokalemia"             -> check_hypokalemia(m)
      [] name = "hyperkalemia"            -> check_hyperkalemia(m)

to_probability_tier_exclusive(prob) ==
    IF prob > Frac(7, 10) THEN "high"
    ELSE IF prob > Frac(4, 10) THEN "moderate"
    ELSE "possible"
to_probability_tier(prob) ==
    IF prob >= Frac(7, 10) THEN "high"
    ELSE IF prob >= Frac(4, 10) THEN "moderate"
    ELSE "possible"

\* list.sort(key=base_probability, reverse=True): stable, equal keys keep
\* their order
RECURSIVE InsertDesc(_, _)
InsertDesc(sorted, c) ==
    IF sorted = << >> THEN <<c>>
    ELSE IF Head(sorted).base_probability >= c.base_probability
         THEN <<Head(sorted)>> \o InsertDesc(Tail(sorted), c)
         ELSE <<c>> \o sorted

RECURSIVE SortCandidates(_, _)
SortCandidates(sorted, rest) ==
    IF rest = << >> THEN sorted
    ELSE SortCandidates(InsertDesc(sorted, Head(rest)), Tail(rest))

\* candidates.sort(key=lambda c: c.base_probability, reverse=True)
sort_candidates_unsorted(candidates) == candidates
sort_candidates(candidates) == SortCandidates(<< >>, candidates)

\* the loop over ALL_CHECKERS: a checker that raises is logged and skipped
RECURSIVE RunCheckers(_, _, _)
RunCheckers_abort(checkers, m, failed) ==
    IF checkers = << >> THEN << >>
    ELSE IF Head(checkers) \in failed
         THEN << >>
         ELSE <<RunChecker(Head(checkers), m)>> \o RunCheckers(Tail(checkers), m, failed)
RunCheckers(checkers, m, failed) ==
    IF checkers = << >> THEN << >>
    ELSE IF Head(checkers) \in failed
         THEN RunCheckers(Tail(checkers), m, failed)
         ELSE <<RunChecker(Head(checkers), m)>> \o RunCheckers(Tail(checkers), m, failed)

DifferentialDiagnosis(c) ==
    [ name             |-> c.display_name,
      probability      |-> Round3(c.base_probability),
      probability_tier |-> to_probability_tier(c.base_probability),
      recommended_discriminating_tests |-> c.tests ]

RECURSIVE ToDifferentials(_)
ToDifferentials(candidates) ==
    IF candidates = << >> THEN << >>
    ELSE IF Head(candidates).base_probability < Frac(5, 100)
         THEN ToDifferentials(Tail(candidates))
         ELSE <<DifferentialDiagnosis(Head(candidates))>>
                  \o ToDifferentials(Tail(candidates))


classify_rhythm_raw(m, candidates) ==
    LET rhythm_names == {"normal_sinus", "sinus_tachycardia", "sinus_bradycardia",
                         "atrial_fibrillation", "atrial_flutter", "svt"}
        hits == {i \in DOMAIN candidates :
                    /\ candidates[i].name \in rhythm_names
                    /\ candidates[i].base_probability >= Frac(5, 10)}
    IN  IF hits # {}
        THEN candidates[CHOOSE i \in hits : \A j \in hits : i <= j].display_name
        ELSE m.rhythm_description
classify_rhythm(m, candidates) ==
    LET rhythm_names == {"normal_sinus", "sinus_tachycardia", "sinus_bradycardia",
                         "atrial_fibrillation", "atrial_flutter", "svt"}
        hits == {i \in DOMAIN candidates :
                    /\ candidates[i].name \in rhythm_names
                    /\ candidates[i].base_probability >= Frac(5, 10)}
    IN  IF hits # {}
        THEN candidates[CHOOSE i \in hits : \A j \in hits : i <= j].display_name
        ELSE IF m.rate.value = 0 THEN <<"R","h","y","t","h","m"," ","i","n","d","e","t","e","r","m","i","n","a","t","e"," ","EMDASH"," ","r","a","t","e"," ","c","o","u","l","d"," ","n","o","t"," ","b","e"," ","m","e","a","s","u","r","e","d">>
        ELSE IF m.rhythm_description # << >> THEN m.rhythm_description
        ELSE <<"R","h","y","t","h","m"," ","n","o","t"," ","c","l","a","s","s","i","f","i","e","d">>

classify_conduction(candidates) ==
    LET conduction_names == {"rbbb", "lbbb", "lafb", "lpfb",
                             "first_degree_av_block", "second_degree_mobitz_i",
                             "second_degree_mobitz_ii", "third_degree_av_block",
                             "wpw"}
    IN  SelectSeq([i \in DOMAIN candidates |->
                       [name |-> candidates[i].name,
                        display_name |-> candidates[i].display_name,
                        ok |-> /\ candidates[i].name \in conduction_names
                               /\ candidates[i].base_probability >= Frac(4, 10)]],
                  LAMBDA c : c.ok)

classify_last(m, failed) ==
    LET candidates    == sort_candidates(RunCheckers(ALL_CHECKERS, m, failed))
        differentials == ToDifferentials(candidates)
        conduction    == classify_conduction(candidates)
    IN  [ primary_finding |-> IF differentials # << >>
                              THEN differentials[Len(differentials)].name
                              ELSE <<"I","n","d","e","t","e","r","m","i","n","a","t","e"," ","EMDASH"," ","i","n","s","u","f","f","i","c","i","e","n","t"," ","d","a","t","a">>,
          differentials   |-> differentials,
          rhythm          |-> classify_rhythm(m, candidates),
          conduction_abnormalities |->
              [i \in DOMAIN conduction |-> conduction[i].display_name] ]
classify(m, failed) ==
    LET candidates    == sort_candidates(RunCheckers(ALL_CHECKERS, m, failed))
        differentials == ToDifferentials(candidates)
        conduction    == classify_conduction(candidates)
    IN  [ primary_finding |-> IF differentials # << >>
                              THEN differentials[1].name
                              ELSE <<"I","n","d","e","t","e","r","m","i","n","a","t","e"," ","EMDASH"," ","i","n","s","u","f","f","i","c","i","e","n","t"," ","d","a","t","a">>,
          differentials   |-> differentials,
          rhythm          |-> classify_rhythm(m, candidates),
          conduction_abnormalities |->
              [i \in DOMAIN conduction |-> conduction[i].display_name] ]

-----------------------------------------------------------------------------
(* Measurements: the inputs of classify *)

LEADS == <<"I", "II", "III", "aVR", "aVL", "aVF",
           "V1", "V2", "V3", "V4", "V5", "V6">>

\* an interval as the measurement engine reports it: 0 with confidence 0 is
\* the sentinel of an interval that could not be measured
Measured(value, method, confidence) ==
    IF value = 0 THEN MeasurementValue(0, "none", 0)
    ELSE MeasurementValue(value, method, confidence)

Measurements(rate, regular, p_detected, pr, qrs, qt, qtc, axis, lvh, rvh, st, tw) ==
    [ rate               |-> rate,
      rhythm_regular     |-> regular,
      rhythm_description |-> IF rate.value = 0 THEN <<"I","n","s","u","f","f","i","c","i","e","n","t"," ","R"," ","p","e","a","k","s"," ","d","e","t","e","c","t","e","d">>
                             ELSE IF regular THEN <<"R","e","g","u","l","a","r"," ","r","h","y","t","h","m">>
                             ELSE <<"I","r","r","e","g","u","l","a","r","l","y"," ","i","r","r","e","g","u","l","a","r"," ","r","h","y","t","h","m">>,
      p_waves            |-> <<[lead_name |-> "II", detected |-> p_detected]>>,
      pr_interval        |-> pr,
      qrs_duration       |-> qrs,
      qt_interval        |-> qt,
      qtc_bazett         |-> qtc,
      qtc_fridericia     |-> qtc,
      axis_degrees       |-> axis,
      lvh_voltage_criteria |-> lvh,
      rvh_voltage_criteria |-> rvh,
      st_deviations      |-> st,
      t_wave_details     |-> tw ]

Territory(lead) ==
    IF lead \in {"II", "III", "aVF"} THEN "inferior"
    ELSE IF lead \in {"V1", "V2", "V3", "V4"} THEN "anterior"
    ELSE IF lead \in {"I", "aVL", "V5", "V6"} THEN "lateral"
    ELSE "aVR"

\* position of a lead among the leads of its territory, in LEADS order
RankInTerritory(i) ==
    Cardinality({j \in 1..i : Territory(LEADS[j]) = Territory(LEADS[i])})

\* one STDeviation per lead: the first `width` leads of a territory carry the
\* territory's level, the others 0
StPattern(level, width) ==
    [i \in DOMAIN LEADS |->
        [lead_name    |-> LEADS[i],
         deviation_mv |-> IF RankInTerritory(i) <= width
                          THEN level[Territory(LEADS[i])] ELSE 0]]

\* measure_t_waves: polarity follows the mean amplitude
TPolarity(amp) ==
    IF amp > 50 THEN "upright" ELSE IF amp < -50 THEN "inverted" ELSE "flat"

TPattern(level) ==
    [i \in DOMAIN LEADS |->
        [lead_name    |-> LEADS[i],
         polarity     |-> TPolarity(level[Territory(LEADS[i])]),
         amplitude_mv |-> Some(level[Territory(LEADS[i])])]]

MRate(v)  == IF v = 0 THEN MeasurementValue(0, "r_peak_detection", 20)
             ELSE MeasurementValue(v, "R-R interval from lead II energy-based peak detection", 100)
MPr(v)    == IF v = 0 THEN None
             ELSE Some(MeasurementValue(v, "P_onset_to_QRS_onset_derivative", 100))
MQrs(v)   == Measured(v, "QRS onset/offset via energy-based derivative threshold", 100)
MQt(v)    == Measured(v, "QRS_onset_to_T_end_tangent", 100)
MAxis(v)  == MeasurementValue(v, "arctan2(net_QRS_aVF, net_QRS_I)", 80)

\* rate, rhythm and the intervals vary; no ST or T data
ScalarInputs ==
    { Measurements(MRate(r), reg, p, MPr(pr), MQrs(q), MQt(400), MQt(410),
                   MAxis(ax), FALSE, FALSE, << >>, << >>) :
        r \in {0, 45, 72, 105, 160}, reg \in BOOLEAN, p \in BOOLEAN, pr \in {0, 100, 160, 220},
        q \in {0, 90, 110, 120, 130}, ax \in {-45, -20, 45, 100} }

\* QT, QTc and the voltage criteria vary
VoltageInputs ==
    { Measurements(MRate(r), TRUE, TRUE, MPr(160), MQrs(90), MQt(qt),
                   MQt(IF qt = 0 THEN 0 ELSE qtc), MAxis(ax), lvh, rvh, << >>, << >>) :
        r \in {0, 45, 72, 105, 160}, qt \in {0, 340, 400}, qtc \in {410, 500},
        ax \in {-45, -20, 45, 100}, lvh \in BOOLEAN, rvh \in BOOLEAN }

\* the ST deviations vary by territory
StInputs ==
    { Measurements(MRate(72), TRUE, TRUE, MPr(160), MQrs(90), MQt(400), MQt(410),
                   MAxis(45), FALSE, FALSE, StPattern(level, w), << >>) :
        level \in [{"inferior", "anterior", "lateral", "aVR"} -> {-100, -60, 0, 60, 100, 110}], w \in {1, 2, 4} }

\* the T waves vary by territory
TInputs ==
    { Measurements(MRate(r), TRUE, TRUE, MPr(160), MQrs(90), MQt(400), MQt(qtc),
                   MAxis(45), FALSE, FALSE, << >>, TPattern(level)) :
        level \in [{"inferior", "anterior", "lateral", "aVR"} -> {-200, 0, 200, 600}], r \in {0, 72}, qtc \in {410, 500} }

ClassifyInputs == ScalarInputs \cup VoltageInputs \cup StInputs \cup TInputs

MaxFailed == 1

\* the subsets of S with at most k elements
RECURSIVE SubsetsUpTo(_, _)
SubsetsUpTo(S, k) ==
    IF k = 0 THEN {{}}
    ELSE LET smaller == SubsetsUpTo(S, k - 1)
         IN  smaller \cup {T \cup {x} : T \in smaller, x \in S}

FailSets == SubsetsUpTo(CheckerNames, MaxFailed)

\* the inputs on which checkers are made to raise
FailInputs ==
    { Measurements(MRate(r), reg, p, MPr(160), MQrs(q), MQt(400), MQt(410),
                   MAxis(45), FALSE, FALSE, << >>, << >>) :
        r \in {0, 72}, reg \in BOOLEAN, p \in BOOLEAN, q \in {0, 90, 130} }

-----------------------------------------------------------------------------
(* The classifier as a state machine: one call of classify *)

PipelineIdle ==
    /\ pc = "idle"
    /\ request = "none"
    /\ stage_status = << >>
    /\ ecg_output = << >>
    /\ cardio_output = << >>
    /\ physio_output = << >>
    /\ artist_output = << >>
    /\ invoked = {}
    /\ timings = {}
    /\ errors = << >>
    /\ warnings = << >>
    /\ degraded = FALSE
    /\ result = << >>
    /\ raised = FALSE

InitClassify ==
    /\ PipelineIdle
    /\ ServiceIdle
    /\ \/ cm \in ClassifyInputs /\ cfailed = {}
       \/ cm \in FailInputs /\ cfailed \in FailSets
    /\ cpc = "input"
    /\ cout = << >>

Classify ==
    /\ cpc = "input"
    /\ cout' = Some(classify(cm, cfailed))
    /\ cpc' = "done"
    /\ UNCHANGED <<cm, cfailed>>
    /\ UNCHANGED <<pipeline_vars, service_vars>>

NextClassify == Classify

SpecClassify == InitClassify /\ [][NextClassify]_vars

-----------------------------------------------------------------------------
(* The measurement engine, over what its detectors find in each lead *)

\* a lead as compute_all_measurements sees it: samples is the length of
\* amplitude_mv; r_peaks, mean_rr and cv are what _detect_r_peaks and
\* _compute_rr_intervals find in its waveform; beats is the number of beats
\* in which the interval searches find a physiologic interval
LeadTimeseries(lead_name, failure_reason, samples, r_peaks, beats) ==
    [ lead_name |-> lead_name, failure_reason |-> failure_reason,
      samples |-> samples, r_peaks |-> r_peaks, mean_rr |-> 800, cv |-> 5,
      beats |-> IF beats > r_peaks THEN r_peaks ELSE beats ]

get_lead(leads, name) ==
    LET found == SelectSeq(leads, LAMBDA l : l.lead_name = name /\ IsNone(l.failure_reason))
    IN  IF found = << >> THEN None ELSE Some(found[1])

\* the lead that measure_rate_and_rhythm reads: max() keeps the first of the
\* longest leads
rate_lead(leads) ==
    IF ~ IsNone(get_lead(leads, "II")) THEN get_lead(leads, "II")
    ELSE IF ~ IsNone(get_lead(leads, "II_rhythm")) THEN get_lead(leads, "II_rhythm")
    ELSE LET available == SelectSeq(leads, LAMBDA l : IsNone(l.failure_reason))
             longest == CHOOSE i \in DOMAIN available :
                            /\ \A j \in DOMAIN available :
                                   available[j].samples <= available[i].samples
                            /\ \A j \in 1..(i - 1) :
                                   available[j].samples < available[i].samples
         IN  IF available = << >> THEN None ELSE Some(available[longest])

\* the lead whose R peaks compute_all_measurements shares with the PR, QRS
\* and QT measurements
interval_lead(leads) ==
    IF ~ IsNone(get_lead(leads, "II")) THEN get_lead(leads, "II")
    ELSE LET available == SelectSeq(leads, LAMBDA l : IsNone(l.failure_reason))
         IN  IF available = << >> THEN None ELSE Some(available[1])

measure_rate_and_rhythm(leads) ==
    LET lead == rate_lead(leads)
    IN  IF IsNone(lead)
        THEN [ rate |-> MeasurementValue(0, "none", 0), regular |-> FALSE,
               description |-> <<"N","o"," ","u","s","a","b","l","e"," ","l","e","a","d","s">> ]
        ELSE IF Get(lead).r_peaks < 2
        THEN [ rate |-> MeasurementValue(0, "r_peak_detection", 20), regular |-> FALSE,
               description |-> <<"I","n","s","u","f","f","i","c","i","e","n","t"," ","R"," ","p","e","a","k","s"," ","d","e","t","e","c","t","e","d">> ]
        ELSE [ rate |-> MeasurementValue(60000 \div Get(lead).mean_rr,
                            "R-R interval from lead II energy-based peak detection",
                            IF Get(lead).r_peaks >= 5 THEN 100
                            ELSE Get(lead).r_peaks * 20),
               regular |-> Get(lead).cv < 15,
               description |-> IF Get(lead).cv < 15 THEN <<"R","e","g","u","l","a","r"," ","r","h","y","t","h","m">>
                               ELSE IF Get(lead).cv < 30 THEN <<"M","i","l","d","l","y"," ","i","r","r","e","g","u","l","a","r"," ","r","h","y","t","h","m">>
                               ELSE <<"I","r","r","e","g","u","l","a","r","l","y"," ","i","r","r","e","g","u","l","a","r"," ","r","h","y","t","h","m">> ]

\* round(min(1.0, n / 3.0), 2) in percent
measure_qrs_duration(lead) ==
    IF lead.beats = 0
    THEN MeasurementValue(0, "qrs_onset_offset_energy", 0)
    ELSE MeasurementValue(90, "QRS onset/offset via energy-based derivative threshold",
                          IF lead.beats >= 3 THEN 100 ELSE (200 * lead.beats + 3) \div 6)

measure_axis(leads) ==
    IF IsNone(get_lead(leads, "I")) \/ IsNone(get_lead(leads, "aVF"))
    THEN MeasurementValue(0, "none", 0)
    ELSE MeasurementValue(45, "arctan2(net_QRS_aVF, net_QRS_I)", 80)

compute_all_measurements(leads) ==
    LET r == measure_rate_and_rhythm(leads)
        lead_ii == interval_lead(leads)
        shared == ~ IsNone(lead_ii) /\ Get(lead_ii).r_peaks >= 2
        beats == IF shared THEN Get(lead_ii).beats ELSE 0
        confidence == IF beats >= 3 THEN 100 ELSE (200 * beats + 3) \div 6
        zero == MeasurementValue(0, "none", 0)
        timed == shared /\ r.rate.value > 0 /\ beats > 0
        ii == get_lead(leads, "II")
        p_detected == ~ IsNone(ii) /\ Get(ii).r_peaks >= 2 /\ Get(ii).beats > 0
        measured ==
            Measurements(r.rate, r.regular, p_detected,
                IF beats > 0
                THEN Some(MeasurementValue(160, "P_onset_to_QRS_onset_derivative", confidence))
                ELSE None,
                IF shared THEN measure_qrs_duration(Get(lead_ii)) ELSE zero,
                IF timed THEN MeasurementValue(400, "QRS_onset_to_T_end_tangent", confidence)
                ELSE zero,
                IF timed THEN MeasurementValue(447, "Bazett: QT / sqrt(RR_seconds)", confidence)
                ELSE zero,
                measure_axis(leads), FALSE, FALSE, << >>, << >>)
    IN  [measured EXCEPT !.rhythm_description = r.description]

-----------------------------------------------------------------------------
(* mapper/archetype_library.py *)

ARCHETYPE_REGISTRY ==
    [ normal_sinus |->
        [ archetype_id |-> "normal_sinus",
          activation_sequence |-> <<
            [structure |-> "sa_node", onset_ms |-> 0, offset_ms |-> 5],
            [structure |-> "right_atrium", onset_ms |-> 5, offset_ms |-> 80],
            [structure |-> "left_atrium", onset_ms |-> 30, offset_ms |-> 100],
            [structure |-> "av_node", onset_ms |-> 80, offset_ms |-> 200],
            [structure |-> "his_bundle", onset_ms |-> 200, offset_ms |-> 220],
            [structure |-> "left_bundle", onset_ms |-> 220, offset_ms |-> 235],
            [structure |-> "right_bundle", onset_ms |-> 220, offset_ms |-> 240],
            [structure |-> "interventricular_septum", onset_ms |-> 240, offset_ms |-> 270],
            [structure |-> "lv_free_wall", onset_ms |-> 270, offset_ms |-> 320],
            [structure |-> "rv_free_wall", onset_ms |-> 270, offset_ms |-> 310],
            [structure |-> "lv_base", onset_ms |-> 300, offset_ms |-> 340] >>,
          conduction_delays |-> [av_node |-> 120, his_bundle |-> 20, left_bundle |-> 15, right_bundle |-> 20] ],
      RBBB_typical |->
        [ archetype_id |-> "RBBB_typical",
          activation_sequence |-> <<
            [structure |-> "sa_node", onset_ms |-> 0, offset_ms |-> 5],
            [structure |-> "right_atrium", onset_ms |-> 5, offset_ms |-> 80],
            [structure |-> "left_atrium", onset_ms |-> 30, offset_ms |-> 100],
            [structure |-> "av_node", onset_ms |-> 80, offset_ms |-> 200],
            [structure |-> "his_bundle", onset_ms |-> 200, offset_ms |-> 220],
            [structure |-> "left_bundle", onset_ms |-> 220, offset_ms |-> 235],
            [structure |-> "interventricular_septum", onset_ms |-> 240, offset_ms |-> 270],
            [structure |-> "lv_free_wall", onset_ms |-> 270, offset_ms |-> 320],
            [structure |-> "rv_free_wall", onset_ms |-> 320, offset_ms |-> 400] >>,
          conduction_delays |-> [av_node |-> 120, his_bundle |-> 20, left_bundle |-> 15, right_bundle |-> -1, rv_myocardial_spread |-> 80] ],
      LBBB_typical |->
        [ archetype_id |-> "LBBB_typical",
          activation_sequence |-> <<
            [structure |-> "sa_node", onset_ms |-> 0, offset_ms |-> 5],
            [structure |-> "right_atrium", onset_ms |-> 5, offset_ms |-> 80],
            [structure |-> "left_atrium", onset_ms |-> 30, offset_ms |-> 100],
            [structure |-> "av_node", onset_ms |-> 80, offset_ms |-> 200],
            [structure |-> "his_bundle", onset_ms |-> 200, offset_ms |-> 220],
            [structure |-> "right_bundle", onset_ms |-> 220, offset_ms |-> 240],
            [structure |-> "interventricular_septum", onset_ms |-> 240, offset_ms |-> 280],
            [structure |-> "rv_free_wall", onset_ms |-> 250, offset_ms |-> 290],
            [structure |-> "lv_free_wall", onset_ms |-> 300, offset_ms |-> 400],
            [structure |-> "lv_base", onset_ms |-> 380, offset_ms |-> 440] >>,
          conduction_delays |-> [av_node |-> 120, his_bundle |-> 20, left_bundle |-> -1, right_bundle |-> 20, lv_myocardial_spread |-> 100] ],
      LAFB |->
        [ archetype_id |-> "LAFB",
          activation_sequence |-> <<
            [structure |-> "sa_node", onset_ms |-> 0, offset_ms |-> 5],
            [structure |-> "right_atrium", onset_ms |-> 5, offset_ms |-> 80],
            [structure |-> "left_atrium", onset_ms |-> 30, offset_ms |-> 100],
            [structure |-> "av_node", onset_ms |-> 80, offset_ms |-> 200],
            [structure |-> "his_bundle", onset_ms |-> 200, offset_ms |-> 220],
            [structure |-> "right_bundle", onset_ms |-> 220, offset_ms |-> 240],
            [structure |-> "left_posterior_fascicle", onset_ms |-> 220, offset_ms |-> 250],
            [structure |-> "lv_free_wall", onset_ms |-> 250, offset_ms |-> 290],
            [structure |-> "lv_base", onset_ms |-> 280, offset_ms |-> 320] >>,
          conduction_delays |-> [av_node |-> 120, his_bundle |-> 20, left_anterior_fascicle |-> -1, left_posterior_fascicle |-> 15, right_bundle |-> 20] ],
      inferior_STEMI_explanatory |->
        [ archetype_id |-> "inferior_STEMI_explanatory",
          activation_sequence |-> <<
            [structure |-> "sa_node", onset_ms |-> 0, offset_ms |-> 5],
            [structure |-> "right_atrium", onset_ms |-> 5, offset_ms |-> 80],
            [structure |-> "left_atrium", onset_ms |-> 30, offset_ms |-> 100],
            [structure |-> "av_node", onset_ms |-> 80, offset_ms |-> 200],
            [structure |-> "his_bundle", onset_ms |-> 200, offset_ms |-> 220],
            [structure |-> "interventricular_septum", onset_ms |-> 240, offset_ms |-> 270],
            [structure |-> "lv_free_wall", onset_ms |-> 270, offset_ms |-> 320],
            [structure |-> "lv_apex", onset_ms |-> 270, offset_ms |-> 340] >>,
          conduction_delays |-> [av_node |-> 120, his_bundle |-> 20, left_bundle |-> 15, right_bundle |-> 20] ],
      anterior_STEMI_explanatory |->
        [ archetype_id |-> "anterior_STEMI_explanatory",
          activation_sequence |-> <<
            [structure |-> "sa_node", onset_ms |-> 0, offset_ms |-> 5],
            [structure |-> "right_atrium", onset_ms |-> 5, offset_ms |-> 80],
            [structure |-> "left_atrium", onset_ms |-> 30, offset_ms |-> 100],
            [structure |-> "av_node", onset_ms |-> 80, offset_ms |-> 200],
            [structure |-> "his_bundle", onset_ms |-> 200, offset_ms |-> 220],
            [structure |-> "interventricular_septum", onset_ms |-> 240, offset_ms |-> 280],
            [structure |-> "lv_free_wall", onset_ms |-> 270, offset_ms |-> 330] >>,
          conduction_delays |-> [av_node |-> 120, his_bundle |-> 20, left_bundle |-> 15, right_bundle |-> 20] ],
      afib_typical |->
        [ archetype_id |-> "afib_typical",
          activation_sequence |-> <<
            [structure |-> "right_atrium", onset_ms |-> 0, offset_ms |-> 600],
            [structure |-> "left_atrium", onset_ms |-> 0, offset_ms |-> 600],
            [structure |-> "av_node", onset_ms |-> 80, offset_ms |-> 200],
            [structure |-> "his_bundle", onset_ms |-> 200, offset_ms |-> 220],
            [structure |-> "left_bundle", onset_ms |-> 220, offset_ms |-> 235],
            [structure |-> "right_bundle", onset_ms |-> 220, offset_ms |-> 240],
            [structure |-> "interventricular_septum", onset_ms |-> 240, offset_ms |-> 270],
            [structure |-> "lv_free_wall", onset_ms |-> 270, offset_ms |-> 320],
            [structure |-> "rv_free_wall", onset_ms |-> 270, offset_ms |-> 310] >>,
          conduction_delays |-> [av_node |-> 120, his_bundle |-> 20, left_bundle |-> 15, right_bundle |-> 20] ],
      third_degree_block |->
        [ archetype_id |-> "third_degree_block",
          activation_sequence |-> <<
            [structure |-> "sa_node", onset_ms |-> 0, offset_ms |-> 5],
            [structure |-> "right_atrium", onset_ms |-> 5, offset_ms |-> 80],
            [structure |-> "left_atrium", onset_ms |-> 30, offset_ms |-> 100],
            [structure |-> "his_bundle", onset_ms |-> 600, offset_ms |-> 620],
            [structure |-> "left_bundle", onset_ms |-> 620, offset_ms |-> 640],
            [structure |-> "right_bundle", onset_ms |-> 620, offset_ms |-> 645],
            [structure |-> "interventricular_septum", onset_ms |-> 640, offset_ms |-> 680],
            [structure |-> "lv_free_wall", onset_ms |-> 680, offset_ms |-> 740],
            [structure |-> "rv_free_wall", onset_ms |-> 680, offset_ms |-> 730] >>,
          conduction_delays |-> [av_node |-> -1, escape_interval |-> 600] ],
      WPW_typical |->
        [ archetype_id |-> "WPW_typical",
          activation_sequence |-> <<
            [structure |-> "sa_node", onset_ms |-> 0, offset_ms |-> 5],
            [structure |-> "right_atrium", onset_ms |-> 5, offset_ms |-> 80],
            [structure |-> "left_atrium", onset_ms |-> 30, offset_ms |-> 100],
            [structure |-> "lv_free_wall", onset_ms |-> 80, offset_ms |-> 140],
            [structure |-> "av_node", onset_ms |-> 80, offset_ms |-> 200],
            [structure |-> "his_bundle", onset_ms |-> 200, offset_ms |-> 220],
            [structure |-> "interventricular_septum", onset_ms |-> 220, offset_ms |-> 260],
            [structure |-> "rv_free_wall", onset_ms |-> 260, offset_ms |-> 300] >>,
          conduction_delays |-> [av_node |-> 120, accessory_pathway |-> 0, his_bundle |-> 20] ],
      LVH_typical |->
        [ archetype_id |-> "LVH_typical",
          activation_sequence |-> <<
            [structure |-> "sa_node", onset_ms |-> 0, offset_ms |-> 5],
            [structure |-> "right_atrium", onset_ms |-> 5, offset_ms |-> 80],
            [structure |-> "left_atrium", onset_ms |-> 30, offset_ms |-> 110],
            [structure |-> "av_node", onset_ms |-> 80, offset_ms |-> 200],
            [structure |-> "his_bundle", onset_ms |-> 200, offset_ms |-> 220],
            [structure |-> "left_bundle", onset_ms |-> 220, offset_ms |-> 235],
            [structure |-> "right_bundle", onset_ms |-> 220, offset_ms |-> 240],
            [structure |-> "interventricular_septum", onset_ms |-> 240, offset_ms |-> 270],
            [structure |-> "rv_free_wall", onset_ms |-> 270, offset_ms |-> 310],
            [structure |-> "lv_free_wall", onset_ms |-> 270, offset_ms |-> 350],
            [structure |-> "lv_base", onset_ms |-> 330, offset_ms |-> 380] >>,
          conduction_delays |-> [av_node |-> 120, his_bundle |-> 20, left_bundle |-> 15, right_bundle |-> 20, lv_wall_prolongation |-> 30] ] ]

get_archetype(archetype_id) ==
    IF archetype_id \in DOMAIN ARCHETYPE_REGISTRY
    THEN Some(ARCHETYPE_REGISTRY[archetype_id])
    ELSE None

FINDING_TO_ARCHETYPE ==
    [ normal_sinus            |-> "normal_sinus",
      sinus_tachycardia       |-> "normal_sinus",
      sinus_bradycardia       |-> "normal_sinus",
      atrial_fibrillation     |-> "afib_typical",
      atrial_flutter          |-> "afib_typical",
      svt                     |-> "normal_sinus",
      rbbb                    |-> "RBBB_typical",
      lbbb                    |-> "LBBB_typical",
      lafb                    |-> "LAFB",
      lpfb                    |-> "normal_sinus",
      first_degree_av_block   |-> "normal_sinus",
      second_degree_mobitz_i  |-> "normal_sinus",
      second_degree_mobitz_ii |-> "third_degree_block",
      third_degree_av_block   |-> "third_degree_block",
      wpw                     |-> "WPW_typical",
      lvh                     |-> "LVH_typical",
      rvh                     |-> "normal_sinus",
      inferior_stemi          |-> "inferior_STEMI_explanatory",
      anterior_stemi          |-> "anterior_STEMI_explanatory",
      lateral_stemi           |-> "anterior_STEMI_explanatory",
      posterior_stemi         |-> "inferior_STEMI_explanatory",
      nstemi                  |-> "normal_sinus",
      early_repolarization    |-> "normal_sinus",
      pericarditis            |-> "normal_sinus",
      digitalis_effect        |-> "normal_sinus",
      hypokalemia             |-> "normal_sinus",
      hyperkalemia            |-> "normal_sinus" ]

find_best_archetype_unchecked(finding_name) ==
    IF finding_name \in DOMAIN FINDING_TO_ARCHETYPE
    THEN FINDING_TO_ARCHETYPE[finding_name]
    ELSE finding_name
find_best_archetype(finding_name) ==
    IF finding_name \in DOMAIN FINDING_TO_ARCHETYPE
    THEN FINDING_TO_ARCHETYPE[finding_name]
    ELSE "normal_sinus"

-----------------------------------------------------------------------------
(* mapper/uncertainty_engine.py *)
(* An AlternateModel is modelled by its description and its test text.     *)

AMBIGUITY_PATTERNS ==
    <<
       [ key1 |-> "inferior_stemi", key2 |-> "early_repolarization",
         key1_text |-> <<"i","n","f","e","r","i","o","r","_","s","t","e","m","i">>, key2_text |-> <<"e","a","r","l","y","_","r","e","p","o","l","a","r","i","z","a","t","i","o","n">>,
         description |-> <<"I","n","f","e","r","i","o","r"," ","S","T"," ","e","l","e","v","a","t","i","o","n"," ","m","a","y"," ","r","e","f","l","e","c","t"," ","a","c","u","t","e"," ","i","n","j","u","r","y"," ","o","r"," ","n","o","r","m","a","l"," ","v","a","r","i","a","n","t">>,
         discriminating_test |-> <<"S","e","r","i","a","l"," ","E","C","G","s"," ","(","d","y","n","a","m","i","c"," ","c","h","a","n","g","e","s"," ","f","a","v","o","r"," ","i","n","j","u","r","y",")",";"," ","H","i","g","h","-","s","e","n","s","i","t","i","v","i","t","y"," ","t","r","o","p","o","n","i","n"," ","t","r","e","n","d">> ],
       [ key1 |-> "anterior_stemi", key2 |-> "early_repolarization",
         key1_text |-> <<"a","n","t","e","r","i","o","r","_","s","t","e","m","i">>, key2_text |-> <<"e","a","r","l","y","_","r","e","p","o","l","a","r","i","z","a","t","i","o","n">>,
         description |-> <<"P","r","e","c","o","r","d","i","a","l"," ","S","T"," ","e","l","e","v","a","t","i","o","n"," ","EMDASH"," ","S","T","E","M","I"," ","v","s"," ","b","e","n","i","g","n"," ","e","a","r","l","y"," ","r","e","p","o","l","a","r","i","z","a","t","i","o","n">>,
         discriminating_test |-> <<"S","m","i","t","h","-","m","o","d","i","f","i","e","d"," ","S","g","a","r","b","o","s","s","a"," ","c","r","i","t","e","r","i","a"," ","i","f"," ","L","B","B","B"," ","p","r","e","s","e","n","t",";"," ","S","e","r","i","a","l"," ","t","r","o","p","o","n","i","n"," ","l","e","v","e","l","s">> ],
       [ key1 |-> "pericarditis", key2 |-> "inferior_stemi",
         key1_text |-> <<"p","e","r","i","c","a","r","d","i","t","i","s">>, key2_text |-> <<"i","n","f","e","r","i","o","r","_","s","t","e","m","i">>,
         description |-> <<"D","i","f","f","u","s","e"," ","S","T"," ","e","l","e","v","a","t","i","o","n"," ","EMDASH"," ","p","e","r","i","c","a","r","d","i","t","i","s"," ","v","s"," ","m","u","l","t","i","-","t","e","r","r","i","t","o","r","y"," ","i","s","c","h","e","m","i","a">>,
         discriminating_test |-> <<"P","R"," ","d","e","p","r","e","s","s","i","o","n"," ","i","n"," ","I","I"," ","(","f","a","v","o","r","s"," ","p","e","r","i","c","a","r","d","i","t","i","s",")",";"," ","S","T"," ","e","l","e","v","a","t","i","o","n"," ","i","n"," ","a","V","R"," ","(","f","a","v","o","r","s"," ","i","s","c","h","e","m","i","a",")">> ],
       [ key1 |-> "lbbb", key2 |-> "lvh",
         key1_text |-> <<"l","b","b","b">>, key2_text |-> <<"l","v","h">>,
         description |-> <<"W","i","d","e"," ","Q","R","S"," ","w","i","t","h"," ","h","i","g","h"," ","v","o","l","t","a","g","e"," ","EMDASH"," ","L","B","B","B"," ","v","s"," ","L","V","H"," ","v","s"," ","b","o","t","h">>,
         discriminating_test |-> <<"E","c","h","o","c","a","r","d","i","o","g","r","a","m"," ","f","o","r"," ","w","a","l","l"," ","t","h","i","c","k","n","e","s","s"," ","a","n","d"," ","L","V","E","F",";"," ","P","r","i","o","r"," ","E","C","G"," ","c","o","m","p","a","r","i","s","o","n"," ","f","o","r"," ","n","e","w"," ","v","s"," ","o","l","d"," ","L","B","B","B">> ],
       [ key1 |-> "rbbb", key2 |-> "rvh",
         key1_text |-> <<"r","b","b","b">>, key2_text |-> <<"r","v","h">>,
         description |-> <<"R","i","g","h","t","-","s","i","d","e","d"," ","E","C","G"," ","c","h","a","n","g","e","s"," ","EMDASH"," ","R","B","B","B"," ","v","s"," ","R","V","H"," ","v","s"," ","b","o","t","h">>,
         discriminating_test |-> <<"E","c","h","o","c","a","r","d","i","o","g","r","a","m"," ","f","o","r"," ","R","V"," ","s","i","z","e"," ","a","n","d"," ","f","u","n","c","t","i","o","n",";"," ","P","u","l","m","o","n","a","r","y"," ","f","u","n","c","t","i","o","n"," ","t","e","s","t","s">> ],
       [ key1 |-> "wpw", key2 |-> "lbbb",
         key1_text |-> <<"w","p","w">>, key2_text |-> <<"l","b","b","b">>,
         description |-> <<"W","i","d","e"," ","Q","R","S"," ","w","i","t","h"," ","s","h","o","r","t"," ","P","R"," ","EMDASH"," ","W","P","W"," ","v","s"," ","L","B","B","B"," ","w","i","t","h"," ","s","h","o","r","t"," ","P","R">>,
         discriminating_test |-> <<"D","e","l","t","a"," ","w","a","v","e"," ","m","o","r","p","h","o","l","o","g","y"," ","a","n","a","l","y","s","i","s",";"," ","E","l","e","c","t","r","o","p","h","y","s","i","o","l","o","g","y"," ","s","t","u","d","y">> ],
       [ key1 |-> "hyperkalemia", key2 |-> "third_degree_av_block",
         key1_text |-> <<"h","y","p","e","r","k","a","l","e","m","i","a">>, key2_text |-> <<"t","h","i","r","d","_","d","e","g","r","e","e","_","a","v","_","b","l","o","c","k">>,
         description |-> <<"W","i","d","e"," ","Q","R","S"," ","w","i","t","h"," ","b","r","a","d","y","c","a","r","d","i","a"," ","EMDASH"," ","h","y","p","e","r","k","a","l","e","m","i","a"," ","v","s"," ","h","i","g","h","-","g","r","a","d","e"," ","A","V"," ","b","l","o","c","k">>,
         discriminating_test |-> <<"S","t","a","t"," ","p","o","t","a","s","s","i","u","m"," ","l","e","v","e","l",";"," ","C","a","l","c","i","u","m"," ","a","d","m","i","n","i","s","t","r","a","t","i","o","n"," ","t","r","i","a","l"," ","(","i","f"," ","h","y","p","e","r","K"," ","s","u","s","p","e","c","t","e","d",")">> ] >>

INHERENT_LIMITATIONS ==
    <<
       <<"S","u","r","f","a","c","e"," ","E","C","G"," ","p","r","o","v","i","d","e","s"," ","a","n"," ","a","v","e","r","a","g","e","d"," ","e","l","e","c","t","r","i","c","a","l"," ","s","i","g","n","a","l",";"," ","i","t"," ","c","a","n","n","o","t"," ","r","e","s","o","l","v","e"," ","t","h","e"," ","a","c","t","i","v","a","t","i","o","n"," ","s","e","q","u","e","n","c","e"," ","o","f"," ","i","n","d","i","v","i","d","u","a","l"," ","m","y","o","c","a","r","d","i","a","l"," ","c","e","l","l","s",".">>,
       <<"C","o","r","o","n","a","r","y"," ","a","n","a","t","o","m","y"," ","c","a","n","n","o","t"," ","b","e"," ","d","e","t","e","r","m","i","n","e","d"," ","f","r","o","m"," ","E","C","G",";"," ","l","e","a","d","-","t","e","r","r","i","t","o","r","y"," ","m","a","p","p","i","n","g"," ","u","s","e","s"," ","s","t","a","t","i","s","t","i","c","a","l"," ","n","o","r","m","s"," ","t","h","a","t"," ","v","a","r","y"," ","b","e","t","w","e","e","n"," ","i","n","d","i","v","i","d","u","a","l","s",".">>,
       <<"W","a","l","l"," ","m","o","t","i","o","n"," ","a","b","n","o","r","m","a","l","i","t","i","e","s"," ","s","u","g","g","e","s","t","e","d"," ","b","y"," ","E","C","G"," ","f","i","n","d","i","n","g","s"," ","r","e","q","u","i","r","e"," ","e","c","h","o","c","a","r","d","i","o","g","r","a","p","h","i","c"," ","c","o","n","f","i","r","m","a","t","i","o","n",".">>,
       <<"E","C","G"," ","c","a","n","n","o","t"," ","d","i","s","t","i","n","g","u","i","s","h"," ","b","e","t","w","e","e","n"," ","a","c","u","t","e"," ","a","n","d"," ","c","h","r","o","n","i","c"," ","S","T"," ","c","h","a","n","g","e","s"," ","w","i","t","h","o","u","t"," ","c","o","m","p","a","r","i","s","o","n"," ","t","o"," ","p","r","i","o","r"," ","t","r","a","c","i","n","g","s",".">> >>

\* str.replace(old, new) for single characters
ReplaceChar(s, old, new) == [i \in DOMAIN s |-> IF s[i] = old THEN new ELSE s[i]]

\* the elements of a sequence of sequences, concatenated
RECURSIVE Flatten(_)
Flatten(seqs) == IF seqs = << >> THEN << >> ELSE Head(seqs) \o Flatten(Tail(seqs))

LowConfidence(label, mv) ==
    IF mv.confidence < 50
    THEN << label \o <<":"," ","l","o","w"," ","c","o","n","f","i","d","e","n","c","e"," ","(">> \o FormatPercent(mv.confidence) \o <<")">> >>
    ELSE << >>

assess_measurement_uncertainty(m) ==
       LowConfidence(<<"H","e","a","r","t"," ","r","a","t","e">>, m.rate)
    \o LowConfidence(<<"Q","R","S"," ","d","u","r","a","t","i","o","n">>, m.qrs_duration)
    \o LowConfidence(<<"Q","T"," ","i","n","t","e","r","v","a","l">>, m.qt_interval)
    \o LowConfidence(<<"E","l","e","c","t","r","i","c","a","l"," ","a","x","i","s">>, m.axis_degrees)
    \o (IF IsNone(m.pr_interval)
        THEN << <<"P","R"," ","i","n","t","e","r","v","a","l",":"," ","c","o","u","l","d"," ","n","o","t"," ","b","e"," ","m","e","a","s","u","r","e","d">> >>
        ELSE LowConfidence(<<"P","R"," ","i","n","t","e","r","v","a","l">>, Get(m.pr_interval)))

\* for one differential: the pattern keys whose text occurs in its name, in
\* the order of AMBIGUITY_PATTERNS
KeysOfName(name_lower) ==
    Flatten([i \in DOMAIN AMBIGUITY_PATTERNS |->
        (IF Contains(name_lower, ReplaceChar(AMBIGUITY_PATTERNS[i].key1_text, "_", " "))
         THEN <<AMBIGUITY_PATTERNS[i].key1>> ELSE << >>)
        \o
        (IF Contains(name_lower, ReplaceChar(AMBIGUITY_PATTERNS[i].key2_text, "_", " "))
         THEN <<AMBIGUITY_PATTERNS[i].key2>> ELSE << >>)])

extract_finding_keys(classifier_output) ==
    Flatten([i \in DOMAIN classifier_output.differentials |->
        IF classifier_output.differentials[i].probability >= 300
        THEN KeysOfName(Lower(classifier_output.differentials[i].name))
        ELSE << >>])

AlternateModel(description, discriminating_test) ==
    [description |-> description, discriminating_test |-> discriminating_test]

assess_diagnostic_ambiguity(finding_keys) ==
    LET present == {finding_keys[i] : i \in DOMAIN finding_keys}
    IN  Flatten([i \in DOMAIN AMBIGUITY_PATTERNS |->
            IF AMBIGUITY_PATTERNS[i].key1 \in present
               \/ AMBIGUITY_PATTERNS[i].key2 \in present
            THEN << AlternateModel(AMBIGUITY_PATTERNS[i].description,
                                   AMBIGUITY_PATTERNS[i].discriminating_test) >>
            ELSE << >>])

assess_uncertainty(classifier_output, m) ==
    [ underdetermined_parameters |->
          assess_measurement_uncertainty(m) \o SubSeq(INHERENT_LIMITATIONS, 1, 2),
      alternate_models |->
          assess_diagnostic_ambiguity(extract_finding_keys(classifier_output)) ]

-----------------------------------------------------------------------------
(* mapper/parameter_builder.py *)
(* Of the contract, evidence_supported, the T-wave axis and the            *)
(* repolarization gradient map are left out: they are formatted floats     *)
(* that no other part of the pipeline reads.                               *)

DISPLAY_TO_KEY ==
    <<
       [display |-> <<"N","o","r","m","a","l"," ","s","i","n","u","s"," ","r","h","y","t","h","m">>, key |-> "normal_sinus"],
       [display |-> <<"P","a","t","t","e","r","n"," ","c","o","n","s","i","s","t","e","n","t"," ","w","i","t","h"," ","s","i","n","u","s"," ","t","a","c","h","y","c","a","r","d","i","a">>, key |-> "sinus_tachycardia"],
       [display |-> <<"P","a","t","t","e","r","n"," ","c","o","n","s","i","s","t","e","n","t"," ","w","i","t","h"," ","s","i","n","u","s"," ","b","r","a","d","y","c","a","r","d","i","a">>, key |-> "sinus_bradycardia"],
       [display |-> <<"P","a","t","t","e","r","n"," ","c","o","n","s","i","s","t","e","n","t"," ","w","i","t","h"," ","a","t","r","i","a","l"," ","f","i","b","r","i","l","l","a","t","i","o","n">>, key |-> "atrial_fibrillation"],
       [display |-> <<"P","a","t","t","e","r","n"," ","c","o","n","s","i","s","t","e","n","t"," ","w","i","t","h"," ","a","t","r","i","a","l"," ","f","l","u","t","t","e","r">>, key |-> "atrial_flutter"],
       [display |-> <<"P","a","t","t","e","r","n"," ","c","o","n","s","i","s","t","e","n","t"," ","w","i","t","h"," ","s","u","p","r","a","v","e","n","t","r","i","c","u","l","a","r"," ","t","a","c","h","y","c","a","r","d","i","a">>, key |-> "svt"],
       [display |-> <<"P","a","t","t","e","r","n"," ","c","o","n","s","i","s","t","e","n","t"," ","w","i","t","h"," ","r","i","g","h","t"," ","b","u","n","d","l","e"," ","b","r","a","n","c","h"," ","b","l","o","c","k">>, key |-> "rbbb"],
       [display |-> <<"P","a","t","t","e","r","n"," ","c","o","n","s","i","s","t","e","n","t"," ","w","i","t","h"," ","l","e","f","t"," ","b","u","n","d","l","e"," ","b","r","a","n","c","h"," ","b","l","o","c","k">>, key |-> "lbbb"],
       [display |-> <<"P","a","t","t","e","r","n"," ","c","o","n","s","i","s","t","e","n","t"," ","w","i","t","h"," ","l","e","f","t"," ","a","n","t","e","r","i","o","r"," ","f","a","s","c","i","c","u","l","a","r"," ","b","l","o","c","k">>, key |-> "lafb"],
       [display |-> <<"P","a","t","t","e","r","n"," ","c","o","n","s","i","s","t","e","n","t"," ","w","i","t","h"," ","l","e","f","t"," ","p","o","s","t","e","r","i","o","r"," ","f","a","s","c","i","c","u","l","a","r"," ","b","l","o","c","k">>, key |-> "lpfb"],
       [display |-> <<"P","a","t","t","e","r","n"," ","c","o","n","s","i","s","t","e","n","t"," ","w","i","t","h"," ","f","i","r","s","t"," ","d","e","g","r","e","e"," ","A","V"," ","b","l","o","c","k">>, key |-> "first_degree_av_block"],
       [display |-> <<"F","i","n","d","i","n","g"," ","s","u","g","g","e","s","t","i","v","e"," ","o","f"," ","s","e","c","o","n","d"," ","d","e","g","r","e","e"," ","A","V"," ","b","l","o","c","k",","," ","M","o","b","i","t","z"," ","t","y","p","e"," ","I"," ","(","W","e","n","c","k","e","b","a","c","h",")">>, key |-> "second_degree_mobitz_i"],
       [display |-> <<"F","i","n","d","i","n","g"," ","s","u","g","g","e","s","t","i","v","e"," ","o","f"," ","s","e","c","o","n","d"," ","d","e","g","r","e","e"," ","A","V"," ","b","l","o","c","k",","," ","M","o","b","i","t","z"," ","t","y","p","e"," ","I","I">>, key |-> "second_degree_mobitz_ii"],
       [display |-> <<"P","a","t","t","e","r","n"," ","c","o","n","s","i","s","t","e","n","t"," ","w","i","t","h"," ","t","h","i","r","d"," ","d","e","g","r","e","e"," ","(","c","o","m","p","l","e","t","e",")"," ","A","V"," ","b","l","o","c","k">>, key |-> "third_degree_av_block"],
       [display |-> <<"P","a","t","t","e","r","n"," ","c","o","n","s","i","s","t","e","n","t"," ","w","i","t","h"," ","W","o","l","f","f","-","P","a","r","k","i","n","s","o","n","-","W","h","i","t","e">>, key |-> "wpw"],
       [display |-> <<"F","i","n","d","i","n","g"," ","s","u","g","g","e","s","t","i","v","e"," ","o","f"," ","l","e","f","t"," ","v","e","n","t","r","i","c","u","l","a","r"," ","h","y","p","e","r","t","r","o","p","h","y">>, key |-> "lvh"],
       [display |-> <<"F","i","n","d","i","n","g"," ","s","u","g","g","e","s","t","i","v","e"," ","o","f"," ","r","i","g","h","t"," ","v","e","n","t","r","i","c","u","l","a","r"," ","h","y","p","e","r","t","r","o","p","h","y">>, key |-> "rvh"],
       [display |-> <<"P","a","t","t","e","r","n"," ","c","o","n","s","i","s","t","e","n","t"," ","w","i","t","h"," ","a","c","u","t","e"," ","i","n","f","e","r","i","o","r"," ","S","T","-","e","l","e","v","a","t","i","o","n"," ","m","y","o","c","a","r","d","i","a","l"," ","i","n","j","u","r","y">>, key |-> "inferior_stemi"],
       [display |-> <<"P","a","t","t","e","r","n"," ","c","o","n","s","i","s","t","e","n","t"," ","w","i","t","h"," ","a","c","u","t","e"," ","a","n","t","e","r","i","o","r"," ","S","T","-","e","l","e","v","a","t","i","o","n"," ","m","y","o","c","a","r","d","i","a","l"," ","i","n","j","u","r","y">>, key |-> "anterior_stemi"],
       [display |-> <<"P","a","t","t","e","r","n"," ","c","o","n","s","i","s","t","e","n","t"," ","w","i","t","h"," ","a","c","u","t","e"," ","l","a","t","e","r","a","l"," ","S","T","-","e","l","e","v","a","t","i","o","n"," ","m","y","o","c","a","r","d","i","a","l"," ","i","n","j","u","r","y">>, key |-> "lateral_stemi"],
       [display |-> <<"P","a","t","t","e","r","n"," ","c","o","n","s","i","s","t","e","n","t"," ","w","i","t","h"," ","a","c","u","t","e"," ","p","o","s","t","e","r","i","o","r"," ","S","T","-","e","l","e","v","a","t","i","o","n"," ","m","y","o","c","a","r","d","i","a","l"," ","i","n","j","u","r","y">>, key |-> "posterior_stemi"],
       [display |-> <<"P","a","t","t","e","r","n"," ","c","o","n","s","i","s","t","e","n","t"," ","w","i","t","h"," ","n","o","n","-","S","T","-","e","l","e","v","a","t","i","o","n"," ","m","y","o","c","a","r","d","i","a","l"," ","i","n","j","u","r","y">>, key |-> "nstemi"],
       [display |-> <<"P","a","t","t","e","r","n"," ","c","o","n","s","i","s","t","e","n","t"," ","w","i","t","h"," ","e","a","r","l","y"," ","r","e","p","o","l","a","r","i","z","a","t","i","o","n">>, key |-> "early_repolarization"],
       [display |-> <<"P","a","t","t","e","r","n"," ","c","o","n","s","i","s","t","e","n","t"," ","w","i","t","h"," ","p","e","r","i","c","a","r","d","i","t","i","s">>, key |-> "pericarditis"],
       [display |-> <<"P","a","t","t","e","r","n"," ","c","o","n","s","i","s","t","e","n","t"," ","w","i","t","h"," ","d","i","g","i","t","a","l","i","s"," ","e","f","f","e","c","t">>, key |-> "digitalis_effect"],
       [display |-> <<"P","a","t","t","e","r","n"," ","c","o","n","s","i","s","t","e","n","t"," ","w","i","t","h"," ","h","y","p","o","k","a","l","e","m","i","a">>, key |-> "hypokalemia"],
       [display |-> <<"P","a","t","t","e","r","n"," ","c","o","n","s","i","s","t","e","n","t"," ","w","i","t","h"," ","h","y","p","e","r","k","a","l","e","m","i","a">>, key |-> "hyperkalemia"] >>

\* display_to_key.get(primary_finding, "normal_sinus")
extract_finding_key(classifier_output) ==
    LET hits == {i \in DOMAIN DISPLAY_TO_KEY :
                    DISPLAY_TO_KEY[i].display = classifier_output.primary_finding}
    IN  IF hits = {} THEN "normal_sinus"
        ELSE DISPLAY_TO_KEY[CHOOSE i \in hits : TRUE].key

build_activation_sequence_swapped(archetype) ==
    [i \in DOMAIN archetype.activation_sequence |->
        [ structure_name |-> archetype.activation_sequence[i].structure,
          onset_ms       |-> archetype.activation_sequence[i].offset_ms,
          offset_ms      |-> archetype.activation_sequence[i].onset_ms,
          confidence     |-> 70 ]]
build_activation_sequence(archetype) ==
    [i \in DOMAIN archetype.activation_sequence |->
        [ structure_name |-> archetype.activation_sequence[i].structure,
          onset_ms       |-> archetype.activation_sequence[i].onset_ms,
          offset_ms      |-> archetype.activation_sequence[i].offset_ms,
          confidence     |-> 70 ]]

build_conduction_system(archetype, classifier_output, m) ==
    LET findings == classifier_output.conduction_abnormalities
        Has(text) == \E i \in DOMAIN findings : Contains(Lower(findings[i]), text)
        lbbb == Has(<<"l","e","f","t"," ","b","u","n","d","l","e"," ","b","r","a","n","c","h">>)
        rbbb == Has(<<"r","i","g","h","t"," ","b","u","n","d","l","e"," ","b","r","a","n","c","h">>)
        wpw  == Has(<<"w","o","l","f","f","-","p","a","r","k","i","n","s","o","n","-","w","h","i","t","e">>)
    IN  [ sa_node_rate     |-> IF m.rate.value > 0 THEN Some(m.rate.value) ELSE None,
          internodal_tracts_intact |-> TRUE,
          av_node_delay_ms |-> IF ~ IsNone(m.pr_interval) /\ Get(m.pr_interval).value > 0
                               THEN Get(m.pr_interval).value
                               ELSE archetype.conduction_delays.av_node,
          his_bundle_intact |-> ~ (lbbb /\ rbbb),
          lbbb |-> lbbb,
          rbbb |-> rbbb,
          wpw  |-> wpw ]

InjuryRegion_inclusive(m, location, lead_names) ==
    LET elevated == {i \in DOMAIN m.st_deviations :
                        /\ m.st_deviations[i].lead_name \in lead_names
                        /\ m.st_deviations[i].deviation_mv >= 100}
    IN  IF Cardinality(elevated) >= 2
        THEN << [ location     |-> location,
                  magnitude_mv |->
                      LET values == {m.st_deviations[i].deviation_mv : i \in elevated}
                      IN  CHOOSE x \in values : \A y \in values : y <= x ] >>
        ELSE << >>
InjuryRegion(m, location, lead_names) ==
    LET elevated == {i \in DOMAIN m.st_deviations :
                        /\ m.st_deviations[i].lead_name \in lead_names
                        /\ m.st_deviations[i].deviation_mv > 100}
    IN  IF Cardinality(elevated) >= 2
        THEN << [ location     |-> location,
                  magnitude_mv |->
                      LET values == {m.st_deviations[i].deviation_mv : i \in elevated}
                      IN  CHOOSE x \in values : \A y \in values : y <= x ] >>
        ELSE << >>

detect_injury_regions(m) ==
       InjuryRegion(m, "inferior", {"II", "III", "aVF"})
    \o InjuryRegion(m, "anterior", {"V1", "V2", "V3", "V4"})
    \o InjuryRegion(m, "lateral", {"I", "aVL", "V5", "V6"})

build_repolarization(m) ==
    [ st_deviation_by_lead |->
          [i \in DOMAIN m.st_deviations |->
              [lead_name |-> m.st_deviations[i].lead_name,
               deviation_mv |-> m.st_deviations[i].deviation_mv]],
      injury_current_regions |-> detect_injury_regions(m) ]

\* f"{p:.0%}" for an emitted probability p in 1/1000: the float p/1000 * 100
\* is rounded half to even, except that 0.545 and 0.575 are not exact ties
PercentOfProbability(p) ==
    IF p % 10 # 5 THEN (p + 5) \div 10
    ELSE IF p = 545 THEN 55
    ELSE IF p = 575 THEN 57
    ELSE IF (p \div 10) % 2 = 0 THEN p \div 10
    ELSE (p \div 10) + 1

build_uncertainty(classifier_output, m, archetype_id) ==
    LET diffs == classifier_output.differentials
        Likely(i, floor) == diffs[i].probability > floor
        stemi_found ==
            \E i \in DOMAIN diffs :
                /\ Likely(i, 300)
                /\ \/ Contains(diffs[i].name, <<"S","T","E","M","I">>)
                   \/ Contains(diffs[i].name, <<"S","T","-","e","l","e","v","a","t","i","o","n">>)
        early_repol ==
            \E i \in DOMAIN diffs :
                Likely(i, 200) /\ Contains(diffs[i].name, <<"e","a","r","l","y"," ","r","e","p","o","l","a","r","i","z","a","t","i","o","n">>)
        pericarditis ==
            \E i \in DOMAIN diffs :
                Likely(i, 200) /\ Contains(diffs[i].name, <<"p","e","r","i","c","a","r","d","i","t","i","s">>)
    IN  [ underdetermined_parameters |->
               (IF m.rate.confidence < 50
                THEN << <<"H","e","a","r","t"," ","r","a","t","e"," ","EMDASH"," ","l","o","w"," ","c","o","n","f","i","d","e","n","c","e"," ","i","n"," ","R"," ","p","e","a","k"," ","d","e","t","e","c","t","i","o","n">> >> ELSE << >>)
            \o (IF IsNone(m.pr_interval)
                THEN << <<"P","R"," ","i","n","t","e","r","v","a","l"," ","EMDASH"," ","c","o","u","l","d"," ","n","o","t"," ","b","e"," ","m","e","a","s","u","r","e","d">> >> ELSE << >>)
            \o (IF m.qrs_duration.confidence < 50
                THEN << <<"Q","R","S"," ","d","u","r","a","t","i","o","n"," ","EMDASH"," ","l","o","w"," ","c","o","n","f","i","d","e","n","c","e"," ","i","n"," ","o","n","s","e","t","/","o","f","f","s","e","t"," ","d","e","t","e","c","t","i","o","n">> >>
                ELSE << >>)
            \o (IF m.qt_interval.confidence < 50
                THEN << <<"Q","T"," ","i","n","t","e","r","v","a","l"," ","EMDASH"," ","T"," ","w","a","v","e"," ","e","n","d"," ","d","e","t","e","c","t","i","o","n"," ","u","n","c","e","r","t","a","i","n">> >> ELSE << >>)
            \o (IF m.axis_degrees.confidence < 50
                THEN << <<"E","l","e","c","t","r","i","c","a","l"," ","a","x","i","s"," ","EMDASH"," ","l","o","w"," ","c","o","n","f","i","d","e","n","c","e"," ","m","e","a","s","u","r","e","m","e","n","t">> >> ELSE << >>)
            \o << <<"I","n","t","e","r","n","a","l"," ","a","c","t","i","v","a","t","i","o","n"," ","s","e","q","u","e","n","c","e"," ","EMDASH"," ","r","e","c","o","n","s","t","r","u","c","t","e","d"," ","f","r","o","m"," ","s","u","r","f","a","c","e"," ","E","C","G",";"," ","i","n","t","r","a","c","a","r","d","i","a","c"," ","m","a","p","p","i","n","g"," ","w","o","u","l","d"," ","p","r","o","v","i","d","e"," ","d","i","r","e","c","t"," ","m","e","a","s","u","r","e","m","e","n","t">> >>,
          alternate_models |->
               (IF Len(diffs) >= 2 /\ diffs[2].probability >= 300
                THEN << AlternateModel(
                          <<"A","l","t","e","r","n","a","t","e"," ","i","n","t","e","r","p","r","e","t","a","t","i","o","n",":"," ">> \o diffs[2].name
                              \o <<" ","(","p","r","o","b","a","b","i","l","i","t","y"," ">>
                              \o FormatPercent(PercentOfProbability(diffs[2].probability))
                              \o <<")">>,
                          IF diffs[2].recommended_discriminating_tests # << >>
                          THEN diffs[2].recommended_discriminating_tests[1]
                          ELSE <<"C","l","i","n","i","c","a","l"," ","c","o","r","r","e","l","a","t","i","o","n"," ","r","e","q","u","i","r","e","d">>) >>
                ELSE << >>)
            \o (IF stemi_found /\ early_repol
                THEN << AlternateModel(
                          <<"S","T"," ","e","l","e","v","a","t","i","o","n"," ","m","a","y"," ","r","e","p","r","e","s","e","n","t"," ","e","i","t","h","e","r"," ","a","c","u","t","e"," ","i","n","j","u","r","y"," ","o","r"," ","b","e","n","i","g","n"," ","e","a","r","l","y"," ","r","e","p","o","l","a","r","i","z","a","t","i","o","n"," ","EMDASH"," ","t","h","e","s","e"," ","c","a","n","n","o","t"," ","b","e"," ","r","e","l","i","a","b","l","y"," ","d","i","s","t","i","n","g","u","i","s","h","e","d"," ","b","y"," ","E","C","G"," ","a","l","o","n","e"," ","i","n"," ","a","l","l"," ","c","a","s","e","s">>,
                          <<"S","e","r","i","a","l"," ","E","C","G","s",","," ","t","r","o","p","o","n","i","n"," ","l","e","v","e","l","s",","," ","a","n","d"," ","c","l","i","n","i","c","a","l"," ","p","r","e","s","e","n","t","a","t","i","o","n">>) >>
                ELSE << >>)
            \o (IF stemi_found /\ pericarditis
                THEN << AlternateModel(
                          <<"D","i","f","f","u","s","e"," ","S","T"," ","e","l","e","v","a","t","i","o","n"," ","p","a","t","t","e","r","n"," ","m","a","y"," ","r","e","p","r","e","s","e","n","t"," ","e","i","t","h","e","r"," ","p","e","r","i","c","a","r","d","i","t","i","s"," ","o","r"," ","m","u","l","t","i","-","t","e","r","r","i","t","o","r","y"," ","i","s","c","h","e","m","i","a">>,
                          <<"P","R"," ","d","e","p","r","e","s","s","i","o","n"," ","p","a","t","t","e","r","n",","," ","s","p","o","d","i","c","k"," ","s","i","g","n",","," ","t","r","o","p","o","n","i","n"," ","t","r","e","n","d",","," ","e","c","h","o">>) >>
                ELSE << >>) ]

\* the id of an archetype as text, for the f-string of the display contract
ArchetypeIdText ==
    [ normal_sinus |-> <<"n","o","r","m","a","l","_","s","i","n","u","s">>,
      RBBB_typical |-> <<"R","B","B","B","_","t","y","p","i","c","a","l">>,
      LBBB_typical |-> <<"L","B","B","B","_","t","y","p","i","c","a","l">>,
      LAFB |-> <<"L","A","F","B">>,
      inferior_STEMI_explanatory |-> <<"i","n","f","e","r","i","o","r","_","S","T","E","M","I","_","e","x","p","l","a","n","a","t","o","r","y">>,
      anterior_STEMI_explanatory |-> <<"a","n","t","e","r","i","o","r","_","S","T","E","M","I","_","e","x","p","l","a","n","a","t","o","r","y">>,
      afib_typical |-> <<"a","f","i","b","_","t","y","p","i","c","a","l">>,
      third_degree_block |-> <<"t","h","i","r","d","_","d","e","g","r","e","e","_","b","l","o","c","k">>,
      WPW_typical |-> <<"W","P","W","_","t","y","p","i","c","a","l">>,
      LVH_typical |-> <<"L","V","H","_","t","y","p","i","c","a","l">> ]

build_display_contract(m, classifier_output, archetype_id) ==
    [ modeled_assumption |->
          << <<"A","c","t","i","v","a","t","i","o","n"," ","s","e","q","u","e","n","c","e",":"," ","m","o","d","e","l","e","d"," ","f","r","o","m"," ","'">> \o ArchetypeIdText[archetype_id]
                 \o <<"'"," ","a","r","c","h","e","t","y","p","e"," ","EMDASH"," ","r","e","p","r","e","s","e","n","t","s"," ","a"," ","t","e","a","c","h","i","n","g"," ","r","e","c","o","n","s","t","r","u","c","t","i","o","n",","," ","n","o","t"," ","d","i","r","e","c","t"," ","m","e","a","s","u","r","e","m","e","n","t">>,
             <<"C","o","n","d","u","c","t","i","o","n"," ","s","y","s","t","e","m"," ","s","t","a","t","e",":"," ","i","n","f","e","r","r","e","d"," ","f","r","o","m"," ","s","u","r","f","a","c","e"," ","E","C","G"," ","p","a","t","t","e","r","n","s",";"," ","i","n","t","r","a","c","a","r","d","i","a","c"," ","r","e","c","o","r","d","i","n","g","s"," ","w","o","u","l","d"," ","p","r","o","v","i","d","e"," ","d","i","r","e","c","t"," ","c","o","n","f","i","r","m","a","t","i","o","n">>,
             <<"P","r","o","p","a","g","a","t","i","o","n"," ","d","i","r","e","c","t","i","o","n"," ","v","e","c","t","o","r","s",":"," ","a","p","p","r","o","x","i","m","a","t","e"," ","b","a","s","e","d"," ","o","n"," ","s","t","a","n","d","a","r","d"," ","c","a","r","d","i","a","c"," ","a","n","a","t","o","m","y",";"," ","a","c","t","u","a","l"," ","p","r","o","p","a","g","a","t","i","o","n"," ","v","a","r","i","e","s"," ","w","i","t","h"," ","i","n","d","i","v","i","d","u","a","l"," ","a","n","a","t","o","m","y">> >>
          \o (IF \E i \in DOMAIN m.st_deviations : 
                     \/ m.st_deviations[i].deviation_mv > 100
                     \/ m.st_deviations[i].deviation_mv < -100
              THEN << <<"I","n","j","u","r","y"," ","c","u","r","r","e","n","t"," ","l","o","c","a","l","i","z","a","t","i","o","n",":"," ","b","a","s","e","d"," ","o","n"," ","s","t","a","n","d","a","r","d"," ","l","e","a","d","-","t","e","r","r","i","t","o","r","y"," ","m","a","p","p","i","n","g",";"," ","a","c","t","u","a","l"," ","c","o","r","o","n","a","r","y"," ","a","n","a","t","o","m","y"," ","v","a","r","i","e","s"," ","b","e","t","w","e","e","n"," ","i","n","d","i","v","i","d","u","a","l","s">> >>
              ELSE << >>) ]

build_visualization_parameters(classifier_output, m, metadata) ==
    LET primary_finding_key == extract_finding_key(classifier_output)
        found        == find_best_archetype(primary_finding_key)
        archetype_id == IF IsNone(get_archetype(found)) THEN "normal_sinus" ELSE found
        archetype    == ARCHETYPE_REGISTRY[archetype_id]
    IN  [ ecg_metadata        |-> metadata,
          measurements        |-> m,
          interpretation      |->
              [ primary_diagnosis |-> classifier_output.primary_finding,
                differentials     |-> classifier_output.differentials,
                rhythm            |-> classifier_output.rhythm,
                conduction_abnormalities |-> classifier_output.conduction_abnormalities ],
          activation_sequence |-> build_activation_sequence(archetype),
          conduction_system   |-> build_conduction_system(archetype, classifier_output, m),
          repolarization      |-> build_repolarization(m),
          mechanical_archetype |-> archetype_id,
          uncertainty         |-> build_uncertainty(classifier_output, m, archetype_id),
          display_contract    |-> build_display_contract(m, classifier_output, archetype_id),
          pipeline_warnings   |-> << >>,
          pipeline_degraded   |-> FALSE ]

-----------------------------------------------------------------------------
(* api/routes/frontend_adapter.py *)

\* round(n / d) of Python for n >= 0, d > 0: to the nearest integer, a tie
\* to the even one
RoundRatio(n, d) ==
    LET q == n \div d
        r == n % d
    IN  IF 2 * r < d THEN q
        ELSE IF 2 * r > d THEN q + 1
        ELSE IF q % 2 = 0 THEN q ELSE q + 1

\* the internal structures that the frontend's union has a member for
structure_map ==
    [ sa_node      |-> "sa_node",
      right_atrium |-> "internodal",
      left_atrium  |-> "internodal",
      av_node      |-> "av_node",
      his_bundle   |-> "his_bundle",
      left_bundle  |-> "left_bundle",
      right_bundle |-> "right_bundle",
      purkinje_lv  |-> "purkinje",
      purkinje_rv  |-> "purkinje",
      interventricular_septum |-> "purkinje",
      lv_free_wall |-> "purkinje",
      rv_free_wall |-> "purkinje" ]

\* the phases of one cardiac cycle in ms; p_duration = min(pr_ms * 0.5, 120)
\* is the only boundary that is not a whole number before round()
compute_phase_boundaries(m) ==
    LET pr_ms  == IF ~ IsNone(m.pr_interval) /\ Get(m.pr_interval).value > 0
                  THEN Get(m.pr_interval).value ELSE 160
        qrs_ms == IF m.qrs_duration.value > 0 THEN m.qrs_duration.value ELSE 90
        qt_ms  == IF m.qt_interval.value > 0 THEN m.qt_interval.value ELSE 380
        p_end  == IF pr_ms < 2 * 120 THEN RoundRatio(pr_ms, 2) ELSE 120
        qrs_end == pr_ms + qrs_ms
        st_end  == qrs_end + 60
        t_end   == pr_ms + qt_ms
    IN  [ p_wave     |-> [start_ms |-> 0, end_ms |-> p_end],
          pr_segment |-> [start_ms |-> p_end, end_ms |-> pr_ms],
          qrs        |-> [start_ms |-> pr_ms, end_ms |-> qrs_end],
          st_segment |-> [start_ms |-> qrs_end, end_ms |-> st_end],
          t_wave     |-> [start_ms |-> st_end, end_ms |-> t_end] ]

\* the view of a contract for the visualization layer; the label of an
\* injury region, the waveforms of the digitized leads and
\* evidence_supported are left out
adapt_to_frontend_viz_params(viz) ==
    LET m    == viz.measurements
        rate == IF m.rate.value > 0 THEN m.rate.value ELSE 72
        seq  == viz.activation_sequence
        Mapped(event) == event.structure_name \in DOMAIN structure_map
        mapped == SelectSeq(seq, Mapped)
        tier_map == [high |-> "high", moderate |-> "medium", possible |-> "low"]
        diffs == viz.interpretation.differentials
        alts  == viz.uncertainty.alternate_models
        Rounded(v) == IF v > 0 THEN Some(v) ELSE None
    IN  [ cardiac_cycle_duration_ms |-> RoundRatio(60000, rate),
          activation_sequence |->
              [i \in DOMAIN seq |->
                  [ structure_id |-> seq[i].structure_name,
                    onset_ms     |-> seq[i].onset_ms,
                    duration_ms  |-> seq[i].offset_ms - seq[i].onset_ms ]],
          conduction_system |->
              [ sequence |->
                    [i \in DOMAIN mapped |->
                        [ structure   |-> structure_map[mapped[i].structure_name],
                          onset_ms    |-> mapped[i].onset_ms,
                          duration_ms |-> mapped[i].offset_ms - mapped[i].onset_ms ]],
                lbbb |-> viz.conduction_system.lbbb ],
          repolarization |->
              [ injury_current_regions |->
                    [i \in DOMAIN viz.repolarization.injury_current_regions |->
                        [territory |-> viz.repolarization.injury_current_regions[i].location]] ],
          display_contract |->
              [ modeled_assumption |-> viz.display_contract.modeled_assumption ],
          uncertainty |->
              [ alternate_models |->
                    [i \in DOMAIN alts |-> [id |-> IntToStr(i), label |-> alts[i].description]] ],
          intervals |->
              [ pr_ms  |-> IF IsNone(m.pr_interval) THEN None
                           ELSE Rounded(Get(m.pr_interval).value),
                qrs_ms |-> Rounded(m.qrs_duration.value),
                qt_ms  |-> Rounded(m.qt_interval.value) ],
          primary_diagnosis |-> viz.interpretation.primary_diagnosis,
          differentials |->
              [i \in DOMAIN diffs |->
                  [ id    |-> IntToStr(i),
                    label |-> diffs[i].name,
                    probability_tier |-> tier_map[diffs[i].probability_tier],
                    discriminating_tests |-> diffs[i].recommended_discriminating_tests ]],
          phase_boundaries |-> compute_phase_boundaries(m) ]

-----------------------------------------------------------------------------
(* agents/ecg_specialist.py *)
(* Preprocessing, waveform extraction and the measurement engine work on   *)
(* pixels; their results are inputs of the model, drawn from the sets      *)
(* below.  A step of the agent that raises is the `fault` of the call.     *)

ECGMetadata(paper_speed, amplitude_scale, lead_count) ==
    [paper_speed |-> paper_speed, amplitude_scale |-> amplitude_scale,
     lead_count |-> lead_count]

\* extract_all_leads: the DigitizedECG for `successful` usable leads of `n`
DigitizedECG(n, successful, is_stitched) ==
    [ metadata |-> ECGMetadata(25, 10, n),
      is_stitched |-> is_stitched,
      warnings |->
          (IF is_stitched
           THEN << <<"L","e","a","d","s"," ","a","p","p","e","a","r"," ","t","o"," ","b","e"," ","s","e","q","u","e","n","t","i","a","l","l","y"," ","a","c","q","u","i","r","e","d"," ","(","s","t","i","t","c","h","e","d",")",","," ","n","o","t"," ","s","i","m","u","l","t","a","n","e","o","u","s">> >>
           ELSE << >>)
          \o (IF successful < 6
              THEN << <<"O","n","l","y"," ">> \o IntToStr(successful) \o <<"/">> \o IntToStr(n)
                      \o <<" ","l","e","a","d","s"," ","e","x","t","r","a","c","t","e","d"," ","w","i","t","h"," ","u","s","a","b","l","e"," ","c","o","n","f","i","d","e","n","c","e",";"," ","i","n","t","e","r","p","r","e","t","a","t","i","o","n"," ","q","u","a","l","i","t","y"," ","m","a","y"," ","b","e"," ","d","e","g","r","a","d","e","d">> >>
              ELSE << >>),
      ready_for_interpretation |-> successful >= 1 ]

Digitizations == { DigitizedECG(13, 13, TRUE), DigitizedECG(12, 0, FALSE) }

PreprocessWarnings ==
    { << >>, << <<"C","a","l","i","b","r","a","t","i","o","n"," ","p","u","l","s","e"," ","n","o","t"," ","d","e","t","e","c","t","e","d",";"," ","u","s","i","n","g"," ","d","e","f","a","u","l","t"," ","1","0","m","m","/","m","V">> >> }

\* the Measurements that compute_all_measurements returns in a run
PipelineInputs ==
    { Measurements(MRate(r), reg, reg, MPr(pr), MQrs(q),
                   MQt(IF r = 0 THEN 0 ELSE 400), MQt(IF r = 0 THEN 0 ELSE 410),
                   MAxis(45), FALSE, FALSE, << >>, << >>) :
        r \in {0, 72}, reg \in BOOLEAN, pr \in {0, 160}, q \in {90, 130} }
    \cup
    { Measurements(MRate(72), TRUE, TRUE, MPr(160), MQrs(90), MQt(400), MQt(410),
                   MAxis(45), FALSE, FALSE,
                   StPattern([t \in {"inferior", "anterior", "lateral", "aVR"} |->
                                 IF t \in elevated THEN 110 ELSE 0], 4),
                   << >>) :
        elevated \in SUBSET {"inferior", "anterior", "lateral"} }
    \cup
    { compute_all_measurements(
          << LeadTimeseries("I", None, 2500, 6, 3), LeadTimeseries("II", None, 2500, 6, 1),
             LeadTimeseries("aVF", None, 2500, 6, 3) >>) }

\* str(e) of the exceptions that the environment raises
ExceptionTexts == { <<"b","o","o","m">>, << >> }

ECGSpecialistOutput(digitized_ecg, measurements, gray, success, error, ws) ==
    [ digitized_ecg |-> digitized_ecg, measurements |-> measurements,
      preprocessed_gray |-> gray, success |-> success, error |-> error,
      warnings |-> ws ]

ecg_specialist_process(input, env) ==
    IF input = "none"
    THEN ECGSpecialistOutput(None, None, FALSE, FALSE, Some(<<"N","o"," ","i","m","a","g","e"," ","o","r"," ","P","D","F"," ","p","r","o","v","i","d","e","d">>), << >>)
    ELSE IF env.fault = "preprocess"
    THEN ECGSpecialistOutput(None, None, FALSE, FALSE, Some(env.e), << >>)
    ELSE IF env.fault = "extract"
    THEN ECGSpecialistOutput(None, None, TRUE, FALSE, Some(env.e), env.pre_warnings)
    ELSE LET ws == env.pre_warnings \o env.digitized.warnings
                   \o (IF ~ env.digitized.ready_for_interpretation
                       THEN << <<"E","C","G"," ","d","i","g","i","t","i","z","a","t","i","o","n"," ","q","u","a","l","i","t","y"," ","i","s"," ","l","o","w",";"," ","m","e","a","s","u","r","e","m","e","n","t","s"," ","m","a","y"," ","b","e"," ","u","n","r","e","l","i","a","b","l","e">> >> ELSE << >>)
         IN  IF env.fault = "measure"
             THEN ECGSpecialistOutput(Some(env.digitized), None, TRUE, FALSE,
                                      Some(env.e), ws)
             ELSE ECGSpecialistOutput(Some(env.digitized), Some(env.measurements),
                                      TRUE, TRUE, None, ws)

-----------------------------------------------------------------------------
(* agents/cardiologist.py *)

CardiologistOutput(classifier_output, success, error, ws) ==
    [ classifier_output |-> classifier_output, success |-> success,
      error |-> error, warnings |-> ws ]

\* env.fault: "none", "checkers" (every checker raises inside classify, which
\* classify swallows) or "classify" (classify itself raises)
\* classify(None): every checker raises and is skipped, then _classify_rhythm
\* raises on measurements.rate
cardiologist_process(measurements, env) ==
    IF IsNone(measurements)
    THEN CardiologistOutput(None, FALSE, Some(<<"'","N","o","n","e","T","y","p","e","'"," ","o","b","j","e","c","t"," ","h","a","s"," ","n","o"," ","a","t","t","r","i","b","u","t","e"," ","'","r","a","t","e","'">>), << >>)
    ELSE IF env.fault = "classify"
    THEN CardiologistOutput(None, FALSE, Some(env.e), << >>)
    ELSE LET m == Get(measurements)
             classifier_output ==
                 classify(m, IF env.fault = "checkers" THEN CheckerNames ELSE {})
             diffs == classifier_output.differentials
         IN  CardiologistOutput(
                 Some(classifier_output), TRUE, None,
                 (IF diffs = << >> THEN << <<"N","o"," ","d","i","f","f","e","r","e","n","t","i","a","l"," ","f","i","n","d","i","n","g","s"," ","g","e","n","e","r","a","t","e","d"," ","EMDASH"," ","m","e","a","s","u","r","e","m","e","n","t","s"," ","m","a","y"," ","b","e"," ","i","n","s","u","f","f","i","c","i","e","n","t">> >> ELSE << >>)
                 \o (IF diffs # << >> /\ diffs[1].probability < 300
                     THEN << <<"H","i","g","h","e","s","t"," ","p","r","o","b","a","b","i","l","i","t","y"," ","f","i","n","d","i","n","g"," ","i","s"," ","o","n","l","y"," ">>
                             \o FormatPercent(PercentOfProbability(diffs[1].probability))
                             \o <<" ","EMDASH"," ","i","n","t","e","r","p","r","e","t","a","t","i","o","n"," ","i","s"," ","u","n","c","e","r","t","a","i","n">> >>
                     ELSE << >>))

-----------------------------------------------------------------------------
(* agents/physiologist.py *)

KEY_PATTERNS ==
    <<
       [pattern |-> <<"n","o","r","m","a","l"," ","s","i","n","u","s">>, key |-> "normal_sinus", key_text |-> <<"n","o","r","m","a","l","_","s","i","n","u","s">>],
       [pattern |-> <<"s","i","n","u","s"," ","t","a","c","h","y","c","a","r","d","i","a">>, key |-> "sinus_tachycardia", key_text |-> <<"s","i","n","u","s","_","t","a","c","h","y","c","a","r","d","i","a">>],
       [pattern |-> <<"s","i","n","u","s"," ","b","r","a","d","y","c","a","r","d","i","a">>, key |-> "sinus_bradycardia", key_text |-> <<"s","i","n","u","s","_","b","r","a","d","y","c","a","r","d","i","a">>],
       [pattern |-> <<"a","t","r","i","a","l"," ","f","i","b","r","i","l","l","a","t","i","o","n">>, key |-> "atrial_fibrillation", key_text |-> <<"a","t","r","i","a","l","_","f","i","b","r","i","l","l","a","t","i","o","n">>],
       [pattern |-> <<"a","t","r","i","a","l"," ","f","l","u","t","t","e","r">>, key |-> "atrial_flutter", key_text |-> <<"a","t","r","i","a","l","_","f","l","u","t","t","e","r">>],
       [pattern |-> <<"s","u","p","r","a","v","e","n","t","r","i","c","u","l","a","r"," ","t","a","c","h","y","c","a","r","d","i","a">>, key |-> "svt", key_text |-> <<"s","v","t">>],
       [pattern |-> <<"r","i","g","h","t"," ","b","u","n","d","l","e"," ","b","r","a","n","c","h">>, key |-> "rbbb", key_text |-> <<"r","b","b","b">>],
       [pattern |-> <<"l","e","f","t"," ","b","u","n","d","l","e"," ","b","r","a","n","c","h">>, key |-> "lbbb", key_text |-> <<"l","b","b","b">>],
       [pattern |-> <<"l","e","f","t"," ","a","n","t","e","r","i","o","r"," ","f","a","s","c","i","c","u","l","a","r">>, key |-> "lafb", key_text |-> <<"l","a","f","b">>],
       [pattern |-> <<"l","e","f","t"," ","p","o","s","t","e","r","i","o","r"," ","f","a","s","c","i","c","u","l","a","r">>, key |-> "lpfb", key_text |-> <<"l","p","f","b">>],
       [pattern |-> <<"f","i","r","s","t"," ","d","e","g","r","e","e">>, key |-> "first_degree_av_block", key_text |-> <<"f","i","r","s","t","_","d","e","g","r","e","e","_","a","v","_","b","l","o","c","k">>],
       [pattern |-> <<"m","o","b","i","t","z"," ","t","y","p","e"," ","i">>, key |-> "second_degree_mobitz_i", key_text |-> <<"s","e","c","o","n","d","_","d","e","g","r","e","e","_","m","o","b","i","t","z","_","i">>],
       [pattern |-> <<"w","e","n","c","k","e","b","a","c","h">>, key |-> "second_degree_mobitz_i", key_text |-> <<"s","e","c","o","n","d","_","d","e","g","r","e","e","_","m","o","b","i","t","z","_","i">>],
       [pattern |-> <<"m","o","b","i","t","z"," ","t","y","p","e"," ","i","i">>, key |-> "second_degree_mobitz_ii", key_text |-> <<"s","e","c","o","n","d","_","d","e","g","r","e","e","_","m","o","b","i","t","z","_","i","i">>],
       [pattern |-> <<"t","h","i","r","d"," ","d","e","g","r","e","e">>, key |-> "third_degree_av_block", key_text |-> <<"t","h","i","r","d","_","d","e","g","r","e","e","_","a","v","_","b","l","o","c","k">>],
       [pattern |-> <<"c","o","m","p","l","e","t","e">>, key |-> "third_degree_av_block", key_text |-> <<"t","h","i","r","d","_","d","e","g","r","e","e","_","a","v","_","b","l","o","c","k">>],
       [pattern |-> <<"w","o","l","f","f","-","p","a","r","k","i","n","s","o","n","-","w","h","i","t","e">>, key |-> "wpw", key_text |-> <<"w","p","w">>],
       [pattern |-> <<"l","e","f","t"," ","v","e","n","t","r","i","c","u","l","a","r"," ","h","y","p","e","r","t","r","o","p","h","y">>, key |-> "lvh", key_text |-> <<"l","v","h">>],
       [pattern |-> <<"r","i","g","h","t"," ","v","e","n","t","r","i","c","u","l","a","r"," ","h","y","p","e","r","t","r","o","p","h","y">>, key |-> "rvh", key_text |-> <<"r","v","h">>],
       [pattern |-> <<"i","n","f","e","r","i","o","r">>, key |-> "inferior_stemi", key_text |-> <<"i","n","f","e","r","i","o","r","_","s","t","e","m","i">>],
       [pattern |-> <<"a","n","t","e","r","i","o","r">>, key |-> "anterior_stemi", key_text |-> <<"a","n","t","e","r","i","o","r","_","s","t","e","m","i">>],
       [pattern |-> <<"l","a","t","e","r","a","l">>, key |-> "lateral_stemi", key_text |-> <<"l","a","t","e","r","a","l","_","s","t","e","m","i">>],
       [pattern |-> <<"p","o","s","t","e","r","i","o","r">>, key |-> "posterior_stemi", key_text |-> <<"p","o","s","t","e","r","i","o","r","_","s","t","e","m","i">>],
       [pattern |-> <<"n","o","n","-","s","t">>, key |-> "nstemi", key_text |-> <<"n","s","t","e","m","i">>],
       [pattern |-> <<"e","a","r","l","y"," ","r","e","p","o","l","a","r","i","z","a","t","i","o","n">>, key |-> "early_repolarization", key_text |-> <<"e","a","r","l","y","_","r","e","p","o","l","a","r","i","z","a","t","i","o","n">>],
       [pattern |-> <<"p","e","r","i","c","a","r","d","i","t","i","s">>, key |-> "pericarditis", key_text |-> <<"p","e","r","i","c","a","r","d","i","t","i","s">>],
       [pattern |-> <<"d","i","g","i","t","a","l","i","s">>, key |-> "digitalis_effect", key_text |-> <<"d","i","g","i","t","a","l","i","s","_","e","f","f","e","c","t">>],
       [pattern |-> <<"h","y","p","o","k","a","l","e","m","i","a">>, key |-> "hypokalemia", key_text |-> <<"h","y","p","o","k","a","l","e","m","i","a">>],
       [pattern |-> <<"h","y","p","e","r","k","a","l","e","m","i","a">>, key |-> "hyperkalemia", key_text |-> <<"h","y","p","e","r","k","a","l","e","m","i","a">>] >>

\* the first pattern of key_patterns that occurs in the lowercased name
name_to_key(name) ==
    LET name_lower == Lower(name)
        hits == {i \in DOMAIN KEY_PATTERNS : Contains(name_lower, KEY_PATTERNS[i].pattern)}
    IN  IF hits = {} THEN None
        ELSE Some(KEY_PATTERNS[CHOOSE i \in hits : \A j \in hits : i <= j])

resolve_finding_key(classifier_output) ==
    LET diffs == classifier_output.differentials
        hits  == {i \in DOMAIN diffs :
                     diffs[i].probability >= 500 /\ ~ IsNone(name_to_key(diffs[i].name))}
    IN  IF hits # {}
        THEN Get(name_to_key(diffs[CHOOSE i \in hits : \A j \in hits : i <= j].name))
        ELSE IF ~ IsNone(name_to_key(classifier_output.primary_finding))
        THEN Get(name_to_key(classifier_output.primary_finding))
        ELSE [pattern |-> << >>, key |-> "normal_sinus", key_text |-> <<"n","o","r","m","a","l","_","s","i","n","u","s">>]

PhysiologistOutput(archetype_id, uncertainty, success, error, ws) ==
    [ archetype_id |-> archetype_id, uncertainty |-> uncertainty,
      success |-> success, error |-> error, warnings |-> ws ]

\* env.fault: "none", "resolve" (raise before the archetype is stored) or
\* "assess" (assess_uncertainty raises)
physiologist_process(classifier_output, m, env) ==
    IF env.fault = "resolve"
    THEN PhysiologistOutput("normal_sinus", None, FALSE, Some(env.e), << >>)
    ELSE LET finding_key == resolve_finding_key(classifier_output)
             found       == find_best_archetype(finding_key.key)
             missing     == IsNone(get_archetype(found))
             archetype_id == IF missing THEN "normal_sinus" ELSE found
             ws1 == IF missing
                    THEN << <<"N","o"," ","a","r","c","h","e","t","y","p","e"," ","f","o","u","n","d"," ","f","o","r"," ","'">> \o finding_key.key_text
                            \o <<"'",";"," ","u","s","i","n","g"," ","n","o","r","m","a","l","_","s","i","n","u","s">> >>
                    ELSE << >>
         IN  IF env.fault = "assess"
             THEN PhysiologistOutput(archetype_id, None, FALSE, Some(env.e), ws1)
             ELSE LET uncertainty == assess_uncertainty(classifier_output, m)
                  IN  PhysiologistOutput(
                          archetype_id, Some(uncertainty), TRUE, None,
                          ws1 \o (IF uncertainty.alternate_models # << >>
                                  THEN << IntToStr(Len(uncertainty.alternate_models))
                                          \o <<" ","a","l","t","e","r","n","a","t","e"," ","i","n","t","e","r","p","r","e","t","a","t","i","o","n","(","s",")"," ","i","d","e","n","t","i","f","i","e","d">> >>
                                  ELSE << >>))

-----------------------------------------------------------------------------
(* agents/artist.py *)

ArtistOutput(visualization, success, error, ws) ==
    [ visualization |-> visualization, success |-> success, error |-> error,
      warnings |-> ws ]

artist_process(classifier_output, m, metadata, archetype_id, uncertainty, env) ==
    IF env.fault = "build"
    THEN ArtistOutput(None, FALSE, Some(env.e), << >>)
    ELSE LET built == build_visualization_parameters(classifier_output, m, metadata)
             own   == built.uncertainty
             existing == {own.underdetermined_parameters[i] :
                             i \in DOMAIN own.underdetermined_parameters}
             existing_descs == {own.alternate_models[i].description :
                                   i \in DOMAIN own.alternate_models}
             NewParameter(param) == param \notin existing
             NewModel(model) == model.description \notin existing_descs
             merged ==
                 IF IsNone(uncertainty) THEN own
                 ELSE [ underdetermined_parameters |->
                            own.underdetermined_parameters
                            \o SelectSeq(Get(uncertainty).underdetermined_parameters,
                                         NewParameter),
                        alternate_models |->
                            own.alternate_models
                            \o SelectSeq(Get(uncertainty).alternate_models, NewModel) ]
         IN  ArtistOutput(
                 Some([built EXCEPT !.mechanical_archetype = archetype_id,
                                    !.uncertainty = merged]),
                 TRUE, None, << >>)

-----------------------------------------------------------------------------
(* agents/orchestrator.py *)

StageNames == {"ecg_specialist", "cardiologist", "physiologist", "artist"}

\* the name of each stage in the warnings of the orchestrator
StageLabel ==
    [ ecg_specialist |-> <<"E","C","G"," ","S","p","e","c","i","a","l","i","s","t">>,
      cardiologist   |-> <<"C","a","r","d","i","o","l","o","g","i","s","t">>,
      physiologist   |-> <<"P","h","y","s","i","o","l","o","g","i","s","t">>,
      artist         |-> <<"A","r","t","i","s","t">> ]

\* output.error or "Unknown error"
ErrorOrUnknown(error) ==
    IF IsNone(error) \/ Get(error) = << >> THEN <<"U","n","k","n","o","w","n"," ","e","r","r","o","r">> ELSE Get(error)

\* f"{output.error}"
ErrorText(error) == IF IsNone(error) THEN <<"N","o","n","e">> ELSE Get(error)

\* the bookkeeping common to the four _run_* wrappers after process() returned
\* `output`: extend the warnings, record a failure, set the timing and, back
\* in run, the degraded flag
Returned(stage, output, next) ==
    /\ warnings' = warnings \o output.warnings
                   \o (IF ~ output.success
                       THEN << StageLabel[stage] \o <<" ","f","a","i","l","e","d",":"," ">> \o ErrorText(output.error) >>
                       ELSE << >>)
    /\ errors' = IF ~ output.success
                 THEN errors @@ (stage :> ErrorOrUnknown(output.error))
                 ELSE errors
    /\ stage_status' = stage_status @@ (stage :> IF output.success THEN "ok" ELSE "failed")
    /\ invoked' = invoked \cup {stage}
    /\ timings' = timings \cup {stage}
    /\ degraded' = (degraded \/ ~ output.success)
    /\ pc' = next

\* the early return of a wrapper whose inputs are missing
Skipped_without_warning(stage, warning, error, next) ==
    /\ warnings' = warnings
    /\ errors' = errors @@ (stage :> error)
    /\ stage_status' = stage_status @@ (stage :> "skipped")
    /\ timings' = timings \cup {stage}
    /\ degraded' = TRUE
    /\ pc' = next
    /\ UNCHANGED invoked
Skipped(stage, warning, error, next) ==
    /\ warnings' = Append(warnings, warning)
    /\ errors' = errors @@ (stage :> error)
    /\ stage_status' = stage_status @@ (stage :> "skipped")
    /\ timings' = timings \cup {stage}
    /\ degraded' = TRUE
    /\ pc' = next
    /\ UNCHANGED invoked

\* the except branch of a wrapper: process() raised an exception with text e
Crashed_without_error(stage, e, next) ==
    /\ warnings' = Append(warnings, StageLabel[stage] \o <<" ","c","r","a","s","h","e","d",":"," ">> \o e)
    /\ errors' = errors
    /\ stage_status' = stage_status @@ (stage :> "crashed")
    /\ invoked' = invoked \cup {stage}
    /\ timings' = timings \cup {stage}
    /\ degraded' = TRUE
    /\ pc' = next
Crashed(stage, e, next) ==
    /\ warnings' = Append(warnings, StageLabel[stage] \o <<" ","c","r","a","s","h","e","d",":"," ">> \o e)
    /\ errors' = errors @@ (stage :> e)
    /\ stage_status' = stage_status @@ (stage :> "crashed")
    /\ invoked' = invoked \cup {stage}
    /\ timings' = timings \cup {stage}
    /\ degraded' = TRUE
    /\ pc' = next

Requests == {"image", "pdf", "none"}

\* a call of Orchestrator.run: lines 85-88
Run ==
    /\ pc \in {"idle", "done"}
    /\ request' \in Requests
    /\ pc' = "ecg_specialist"
    /\ stage_status' = << >>
    /\ ecg_output' = << >>
    /\ cardio_output' = << >>
    /\ physio_output' = << >>
    /\ artist_output' = << >>
    /\ invoked' = {}
    /\ timings' = {}
    /\ errors' = << >>
    /\ warnings' = << >>
    /\ degraded' = FALSE
    /\ result' = << >>
    /\ raised' = FALSE
    /\ UNCHANGED <<classify_vars, service_vars>>

EcgEnvs ==
    [ fault : {"none"}, e : {<< >>}, pre_warnings : PreprocessWarnings,
      digitized : Digitizations, measurements : PipelineInputs ]
    \cup
    [ fault : {"preprocess", "extract", "measure", "crash"}, e : ExceptionTexts,
      pre_warnings : PreprocessWarnings, digitized : Digitizations,
      measurements : {<< >>} ]

RunEcgSpecialist ==
    /\ pc = "ecg_specialist"
    /\ \E env \in EcgEnvs :
          IF env.fault = "crash"
          THEN /\ ecg_output' = ECGSpecialistOutput(None, None, FALSE, FALSE,
                                                    Some(env.e), << >>)
               /\ Crashed("ecg_specialist", env.e, "cardiologist")
          ELSE LET output == ecg_specialist_process(request, env)
               IN  /\ ecg_output' = output
                   /\ Returned("ecg_specialist", output, "cardiologist")
    /\ UNCHANGED <<request, cardio_output, physio_output, artist_output, result, raised>>
    /\ UNCHANGED <<classify_vars, service_vars>>

\* the guard of the early return of _run_cardiologist
cardiologist_input_unchecked(ecg) == FALSE
cardiologist_input_missing(ecg) == IsNone(ecg.measurements)

CardioEnvs ==
    [ fault : {"none", "checkers"}, e : {<< >>} ]
    \cup [ fault : {"classify", "crash"}, e : ExceptionTexts ]

RunCardiologist ==
    /\ pc = "cardiologist"
    /\ IF cardiologist_input_missing(ecg_output)
       THEN /\ cardio_output' = CardiologistOutput(None, FALSE,
                                    Some(<<"N","o"," ","m","e","a","s","u","r","e","m","e","n","t","s"," ","i","n","p","u","t">>), << >>)
            /\ Skipped("cardiologist",
                       <<"C","a","r","d","i","o","l","o","g","i","s","t"," ","s","k","i","p","p","e","d",":"," ","n","o"," ","m","e","a","s","u","r","e","m","e","n","t","s"," ","a","v","a","i","l","a","b","l","e">>,
                       <<"S","k","i","p","p","e","d"," ","EMDASH"," ","n","o"," ","i","n","p","u","t"," ","m","e","a","s","u","r","e","m","e","n","t","s">>, "physiologist")
       ELSE \E env \in CardioEnvs :
              IF env.fault = "crash"
              THEN /\ cardio_output' = CardiologistOutput(None, FALSE, Some(env.e), << >>)
                   /\ Crashed("cardiologist", env.e, "physiologist")
              ELSE LET output == cardiologist_process(ecg_output.measurements, env)
                   IN  /\ cardio_output' = output
                       /\ Returned("cardiologist", output, "physiologist")
    /\ UNCHANGED <<request, ecg_output, physio_output, artist_output, result, raised>>
    /\ UNCHANGED <<classify_vars, service_vars>>

PhysioEnvs ==
    [ fault : {"none"}, e : {<< >>} ]
    \cup [ fault : {"resolve", "assess", "crash"}, e : ExceptionTexts ]

RunPhysiologist ==
    /\ pc = "physiologist"
    /\ IF IsNone(cardio_output.classifier_output) \/ IsNone(ecg_output.measurements)
       THEN /\ physio_output' = PhysiologistOutput("normal_sinus", None, FALSE,
                                    Some(<<"M","i","s","s","i","n","g"," ","i","n","p","u","t"," ","d","a","t","a">>), << >>)
            /\ Skipped("physiologist",
                       <<"P","h","y","s","i","o","l","o","g","i","s","t"," ","s","k","i","p","p","e","d",":"," ","m","i","s","s","i","n","g"," ","c","l","a","s","s","i","f","i","e","r"," ","o","r"," ","m","e","a","s","u","r","e","m","e","n","t"," ","d","a","t","a">>,
                       <<"S","k","i","p","p","e","d"," ","EMDASH"," ","m","i","s","s","i","n","g"," ","i","n","p","u","t">>, "artist")
       ELSE \E env \in PhysioEnvs :
              IF env.fault = "crash"
              THEN /\ physio_output' = PhysiologistOutput("normal_sinus", None, FALSE,
                                                          Some(env.e), << >>)
                   /\ Crashed("physiologist", env.e, "artist")
              ELSE LET output == physiologist_process(
                                     Get(cardio_output.classifier_output),
                                     Get(ecg_output.measurements), env)
                   IN  /\ physio_output' = output
                       /\ Returned("physiologist", output, "artist")
    /\ UNCHANGED <<request, ecg_output, cardio_output, artist_output, result, raised>>
    /\ UNCHANGED <<classify_vars, service_vars>>

ArtistEnvs ==
    [ fault : {"none"}, e : {<< >>} ]
    \cup [ fault : {"build", "crash"}, e : ExceptionTexts ]

RunArtist ==
    /\ pc = "artist"
    /\ IF \/ IsNone(cardio_output.classifier_output)
          \/ IsNone(ecg_output.measurements)
          \/ IsNone(ecg_output.digitized_ecg)
       THEN /\ artist_output' = ArtistOutput(None, FALSE, Some(<<"M","i","s","s","i","n","g"," ","i","n","p","u","t"," ","d","a","t","a">>), << >>)
            /\ Skipped("artist", <<"A","r","t","i","s","t"," ","s","k","i","p","p","e","d",":"," ","m","i","s","s","i","n","g"," ","u","p","s","t","r","e","a","m"," ","d","a","t","a">>,
                       <<"S","k","i","p","p","e","d"," ","EMDASH"," ","m","i","s","s","i","n","g"," ","i","n","p","u","t">>, "assemble")
       ELSE \E env \in ArtistEnvs :
              IF env.fault = "crash"
              THEN /\ artist_output' = ArtistOutput(None, FALSE, Some(env.e), << >>)
                   /\ Crashed("artist", env.e, "assemble")
              ELSE LET output == artist_process(
                                     Get(cardio_output.classifier_output),
                                     Get(ecg_output.measurements),
                                     Get(ecg_output.digitized_ecg).metadata,
                                     physio_output.archetype_id,
                                     physio_output.uncertainty, env)
                   IN  /\ artist_output' = output
                       /\ Returned("artist", output, "assemble")
    /\ UNCHANGED <<request, ecg_output, cardio_output, physio_output, result, raised>>
    /\ UNCHANGED <<classify_vars, service_vars>>

\* pydantic's field constraints (ge/le): a constructor that violates them
\* raises ValidationError
ValidMeasurementValue(mv) == mv.confidence >= 0 /\ mv.confidence <= 100
ValidECGMetadata(md) == md.lead_count >= 1 /\ md.lead_count <= 15

zero_mv_out_of_range == MeasurementValue(0, "fallback", -1)
zero_mv == MeasurementValue(0, "fallback", 0)

fallback_modeled_assumption ==
    << <<"A","l","l"," ","v","i","s","u","a","l","i","z","a","t","i","o","n"," ","e","l","e","m","e","n","t","s"," ","a","r","e"," ","d","e","f","a","u","l","t"," ","v","a","l","u","e","s"," ","d","u","e"," ","t","o"," ","p","i","p","e","l","i","n","e"," ","f","a","i","l","u","r","e">> >>

\* activation_sequence is not given: default_factory=list
fallback_activation_sequence_from_archetype ==
    build_activation_sequence(ARCHETYPE_REGISTRY["normal_sinus"])
fallback_activation_sequence == << >>

\* ConductionSystem()
DefaultConductionSystem ==
    [ sa_node_rate |-> None, internodal_tracts_intact |-> TRUE,
      av_node_delay_ms |-> 120, his_bundle_intact |-> TRUE,
      lbbb |-> FALSE, rbbb |-> FALSE, wpw |-> FALSE ]

\* the Measurements of the fallback: the fields not given take their defaults
FallbackMeasurements ==
    [ rate               |-> zero_mv,
      rhythm_regular     |-> FALSE,
      rhythm_description |-> << >>,
      p_waves            |-> << >>,
      pr_interval        |-> None,
      qrs_duration       |-> zero_mv,
      qt_interval        |-> zero_mv,
      qtc_bazett         |-> zero_mv,
      qtc_fridericia     |-> zero_mv,
      axis_degrees       |-> zero_mv,
      lvh_voltage_criteria |-> FALSE,
      rvh_voltage_criteria |-> FALSE,
      st_deviations      |-> << >>,
      t_wave_details     |-> << >> ]

\* None when a constructor raises ValidationError
build_fallback_visualization(ecg, ws) ==
    LET metadata == IF ~ IsNone(ecg.digitized_ecg)
                    THEN Get(ecg.digitized_ecg).metadata
                    ELSE ECGMetadata(25, 10, 12)
        m == IF ~ IsNone(ecg.measurements) THEN Get(ecg.measurements)
             ELSE FallbackMeasurements
    IN  IF \/ ~ ValidECGMetadata(metadata)
           \/ IsNone(ecg.measurements) /\ ~ ValidMeasurementValue(zero_mv)
        THEN None
        ELSE Some(
          [ ecg_metadata        |-> metadata,
            measurements        |-> m,
            interpretation      |->
                [ primary_diagnosis |-> <<"I","n","t","e","r","p","r","e","t","a","t","i","o","n"," ","u","n","a","v","a","i","l","a","b","l","e"," ","EMDASH"," ","p","i","p","e","l","i","n","e"," ","d","e","g","r","a","d","e","d">>,
                  differentials     |-> << >>,
                  rhythm            |-> <<"U","n","a","b","l","e"," ","t","o"," ","c","l","a","s","s","i","f","y">>,
                  conduction_abnormalities |-> << >> ],
            activation_sequence |-> fallback_activation_sequence,
            conduction_system   |-> DefaultConductionSystem,
            repolarization      |-> [ st_deviation_by_lead |-> << >>,
                                      injury_current_regions |-> << >> ],
            mechanical_archetype |-> "normal_sinus",
            uncertainty         |-> [ underdetermined_parameters |-> 
                                          << <<"A","l","l"," ","p","a","r","a","m","e","t","e","r","s"," ","EMDASH"," ","p","i","p","e","l","i","n","e"," ","f","a","i","l","e","d"," ","b","e","f","o","r","e"," ","c","o","m","p","l","e","t","i","o","n">> >>,
                                      alternate_models |-> << >> ],
            display_contract    |-> [ modeled_assumption |-> fallback_modeled_assumption ],
            pipeline_warnings   |-> ws,
            pipeline_degraded   |-> TRUE ])

PipelineResult(viz, ecg) ==
    [ visualization |-> viz,
      digitized_ecg |-> IF ecg.success THEN ecg.digitized_ecg ELSE None,
      preprocessed_gray |-> ecg.preprocessed_gray,
      agent_timings |-> timings,
      agent_errors  |-> errors,
      all_warnings  |-> warnings ]

\* lines 118-137 of run: take the artist's contract or build the fallback,
\* stamp it and return
Assemble ==
    /\ pc = "assemble"
    /\ LET viz == IF ~ IsNone(artist_output.visualization)
                  THEN artist_output.visualization
                  ELSE build_fallback_visualization(ecg_output, warnings)
       IN  IF IsNone(viz)
           THEN /\ raised' = TRUE
                /\ result' = << >>
           ELSE /\ raised' = FALSE
                /\ result' = Some(PipelineResult(
                                 [Get(viz) EXCEPT !.pipeline_degraded = degraded,
                                                  !.pipeline_warnings = warnings],
                                 ecg_output))
    /\ pc' = "done"
    /\ UNCHANGED <<request, stage_status, ecg_output, cardio_output, physio_output,
                   artist_output, invoked, timings, errors, warnings, degraded>>
    /\ UNCHANGED <<classify_vars, service_vars>>

ClassifierIdle ==
    /\ cm = << >>
    /\ cfailed = {}
    /\ cpc = "done"
    /\ cout = << >>

Init ==
    /\ PipelineIdle
    /\ ClassifierIdle
    /\ ServiceIdle

Next ==
    \/ Run
    \/ RunEcgSpecialist
    \/ RunCardiologist
    \/ RunPhysiologist
    \/ RunArtist
    \/ Assemble

Spec == Init /\ [][Next]_vars

-----------------------------------------------------------------------------
(* The units of the interpreter and the mapper, called one at a time: cm is
   the call, cout what it returns *)

\* the leads of a digitized ECG in the order of the segmenter, the rhythm
\* strip last; a lead whose extraction failed is _failed_lead's
MeasureInputs ==
    LET Lead(name, ok, samples, r_peaks, beats) ==
            IF ok THEN LeadTimeseries(name, None, samples, r_peaks, beats)
            ELSE LeadTimeseries(name, Some(<<"W","a","v","e","f","o","r","m"," ","t","r","a","c","i","n","g"," ","f","a","i","l","e","d">>), 1, 0, 0)
    IN  { << Lead("I", ok[1], 2500, 6, 3), Lead("II", ok[2], 2500, p, b),
             Lead("aVF", ok[3], s, 6, 3), Lead("II_rhythm", ok[4], 10000, p2, b) >> :
            ok \in [1..4 -> BOOLEAN], p \in {1, 2, 6}, p2 \in {1, 6},
            b \in {0, 1, 3}, s \in {2500, 5000} }

\* the ST deviations vary by lead in the inferior territory
InjuryInputs ==
    { Measurements(MRate(72), TRUE, TRUE, MPr(160), MQrs(90), MQt(400), MQt(410),
                   MAxis(45), FALSE, FALSE,
                   [i \in DOMAIN LEADS |->
                       [lead_name    |-> LEADS[i],
                        deviation_mv |->
                            IF LEADS[i] \in DOMAIN inferior THEN inferior[LEADS[i]]
                            ELSE IF Territory(LEADS[i]) = "aVR" THEN 0
                            ELSE level[Territory(LEADS[i])]]],
                   << >>) :
        inferior \in [{"II", "III", "aVF"} -> {0, 100, 110, 150}],
        level \in [{"anterior", "lateral"} -> {0, 100, 150}] }

\* the intervals at the ends of and inside the ranges that the measurement
\* engine accepts: PR in (80, 400), QRS in (40, 250), QT in (200, 700), or
\* not measured
PhaseInputs ==
    { Measurements(MRate(r), TRUE, TRUE, MPr(pr), MQrs(q), MQt(qt), MQt(qt),
                   MAxis(45), FALSE, FALSE, << >>, << >>) :
        r \in {64, 72}, pr \in {0, 81, 121, 160, 399}, q \in {0, 41, 90, 160, 249},
        qt \in {0, 201, 380, 699} }

\* contracts of the parameter builder, and one per archetype of the registry
AdapterInputs ==
    LET Built(m) == build_visualization_parameters(classify(m, {}), m,
                                                   ECGMetadata(25, 10, 12))
        base == Built(Measurements(MRate(72), TRUE, TRUE, MPr(160), MQrs(90),
                                   MQt(400), MQt(410), MAxis(45), FALSE, FALSE,
                                   << >>, << >>))
    IN  { Built(m) : m \in PhaseInputs }
        \cup { [base EXCEPT !.mechanical_archetype = a,
                            !.activation_sequence =
                                build_activation_sequence(ARCHETYPE_REGISTRY[a])] :
                   a \in DOMAIN ARCHETYPE_REGISTRY }

InitUnits ==
    /\ PipelineIdle
    /\ ServiceIdle
    /\ cm \in [op : {"compute_all_measurements"}, arg : MeasureInputs]
          \cup [op : {"find_best_archetype"},
                arg : CheckerNames \cup {"ventricular_tachycardia", "NORMAL_SINUS", ""}]
          \cup [op : {"build_activation_sequence"}, arg : DOMAIN ARCHETYPE_REGISTRY]
          \cup [op : {"checker"},
                arg : [name : {"lafb"}, m : ScalarInputs]
                      \cup [name : {"lvh"}, m : VoltageInputs \cup TInputs]
                      \cup [name : {"inferior_stemi", "anterior_stemi"}, m : StInputs]]
          \cup [op : {"detect_injury_regions"}, arg : InjuryInputs]
          \cup [op : {"assess_uncertainty"},
                arg : {[classifier_output |-> classify(m, {}), measurements |-> m] :
                          m \in ScalarInputs \cup VoltageInputs \cup PipelineInputs}]
          \cup [op : {"adapt_to_frontend_viz_params"}, arg : AdapterInputs]
          \cup [op : {"build_visualization_parameters"},
                arg : {m \in StInputs :
                          \A i \in DOMAIN m.st_deviations :
                              m.st_deviations[i].deviation_mv \in {0, 100, 110}}]
    /\ cfailed = {}
    /\ cpc = "call"
    /\ cout = << >>

Return(op, value) ==
    /\ cpc = "call"
    /\ cm.op = op
    /\ cout' = Some(value)
    /\ cpc' = "returned"
    /\ UNCHANGED <<cm, cfailed>>
    /\ UNCHANGED <<pipeline_vars, service_vars>>

ComputeAllMeasurements ==
    Return("compute_all_measurements",
           [ rate_lead     |-> rate_lead(cm.arg),
             interval_lead |-> interval_lead(cm.arg),
             measurements  |-> compute_all_measurements(cm.arg) ])

FindBestArchetype ==
    Return("find_best_archetype", find_best_archetype(cm.arg))

BuildActivationSequence ==
    Return("build_activation_sequence",
           build_activation_sequence(Get(get_archetype(cm.arg))))

\* one checker of ALL_CHECKERS, called as classify calls it
RunOneChecker == Return("checker", RunChecker(cm.arg.name, cm.arg.m))

DetectInjuryRegions ==
    Return("detect_injury_regions", detect_injury_regions(cm.arg))

AssessUncertainty ==
    Return("assess_uncertainty",
           assess_uncertainty(cm.arg.classifier_output, cm.arg.measurements))

AdaptToFrontend ==
    Return("adapt_to_frontend_viz_params", adapt_to_frontend_viz_params(cm.arg))

\* the contract of the parameter builder for what classify returns on the
\* same Measurements
BuildVisualizationParameters ==
    Return("build_visualization_parameters",
           build_visualization_parameters(classify(cm.arg, {}), cm.arg,
                                          ECGMetadata(25, 10, 12)))

NextUnits ==
    \/ ComputeAllMeasurements
    \/ FindBestArchetype
    \/ BuildActivationSequence
    \/ RunOneChecker
    \/ DetectInjuryRegions
    \/ AssessUncertainty
    \/ AdaptToFrontend
    \/ BuildVisualizationParameters

SpecUnits == InitUnits /\ [][NextUnits]_vars

-----------------------------------------------------------------------------
(* api/session_store.py: InMemorySessionStore.  _store is a dict, which
   keeps its keys in the order of their first insertion. *)

SessionIds == {"s1", "s2", "s3"}
SessionData == {"blob1", "blob2"}
MaxCapacity == 2

\* the keys of the dict
Keys(s) == {s[i].session_id : i \in DOMAIN s}

save_unbounded(s, max, session_id, data) ==
    IF session_id \in Keys(s)
    THEN [i \in DOMAIN s |->
             IF s[i].session_id = session_id
             THEN [session_id |-> session_id, data |-> data] ELSE s[i]]
    ELSE Append(s, [session_id |-> session_id, data |-> data])

\* del self._store[next(iter(self._store))] when at capacity and the id is
\* new, then self._store[session_id] = data: an existing key keeps its place
save(s, max, session_id, data) ==
    LET kept == IF Len(s) >= max /\ session_id \notin Keys(s) THEN Tail(s) ELSE s
    IN  IF session_id \in Keys(kept)
        THEN [i \in DOMAIN kept |->
                 IF kept[i].session_id = session_id
                 THEN [session_id |-> session_id, data |-> data] ELSE kept[i]]
        ELSE Append(kept, [session_id |-> session_id, data |-> data])

\* self._store.get(session_id)
load(s, session_id) ==
    IF session_id \in Keys(s)
    THEN Some(s[CHOOSE i \in DOMAIN s : s[i].session_id = session_id].data)
    ELSE None

\* self._store.pop(session_id, None)
delete(s, session_id) ==
    LET Other(entry) == entry.session_id # session_id
    IN  SelectSeq(s, Other)

exists(s, session_id) == session_id \in Keys(s)

\* the history of use after a call that saved or loaded `used` (<< >> for
\* none) and left the keys `keys` in the store
Touch(order, used, keys) ==
    LET Stays(id) == id \in keys /\ <<id>> # used
        IsStored(id) == id \in keys
    IN  SelectSeq(order, Stays) \o SelectSeq(used, IsStored)

Called(op, session_id, returned) ==
    [ op |-> op, session_id |-> session_id, returned |-> returned,
      store |-> store, recency |-> recency ]

InitStore ==
    /\ PipelineIdle
    /\ ClassifierIdle
    /\ ThreadsIdle
    /\ GridIdle
    /\ MedicalIdle
    /\ store = << >>
    /\ max_sessions \in 1..MaxCapacity
    /\ recency = << >>
    /\ last_call = << >>

Save ==
    \E session_id \in SessionIds, data \in SessionData :
        /\ store' = save(store, max_sessions, session_id, data)
        /\ recency' = Touch(recency, <<session_id>>, Keys(store'))
        /\ last_call' = Called("save", session_id, data)
        /\ UNCHANGED <<max_sessions, pipeline_vars, classify_vars, thread_vars, grid, medical>>

Load ==
    \E session_id \in SessionIds :
        /\ recency' = Touch(recency, <<session_id>>, Keys(store))
        /\ last_call' = Called("load", session_id, load(store, session_id))
        /\ UNCHANGED <<store, max_sessions, pipeline_vars, classify_vars, thread_vars, grid, medical>>

Delete ==
    \E session_id \in SessionIds :
        /\ store' = delete(store, session_id)
        /\ recency' = Touch(recency, << >>, Keys(store'))
        /\ last_call' = Called("delete", session_id, None)
        /\ UNCHANGED <<max_sessions, pipeline_vars, classify_vars, thread_vars, grid, medical>>

Exists ==
    \E session_id \in SessionIds :
        /\ last_call' = Called("exists", session_id, exists(store, session_id))
        /\ UNCHANGED <<store, max_sessions, recency, pipeline_vars, classify_vars, thread_vars, grid, medical>>

NextStore ==
    \/ Save
    \/ Load
    \/ Delete
    \/ Exists

SpecStore == InitStore /\ [][NextStore]_vars

-----------------------------------------------------------------------------
(* api/routes/ingest.py, agents/orchestrator.py: runs of the one module-level
   Orchestrator in several threads.  timings, errors, warnings, degraded and
   the stage outputs are locals of run, so each thread has its own; the
   variables of the pipeline are the locals of the thread `current`, `frames`
   holds those of the suspended threads.  The agents of the Orchestrator
   have no attributes; the tables below are what the runs have in common. *)

Threads == {"t1", "t2"}

\* interpreter/classifier.py
ICD10 ==
    [
      normal_sinus |-> None,
      sinus_tachycardia |-> Some("R00.0"),
      sinus_bradycardia |-> Some("R00.1"),
      atrial_fibrillation |-> Some("I48.91"),
      atrial_flutter |-> Some("I48.92"),
      svt |-> Some("I47.1"),
      rbbb |-> Some("I45.10"),
      lbbb |-> Some("I44.7"),
      lafb |-> Some("I44.4"),
      lpfb |-> Some("I44.5"),
      first_degree_av_block |-> Some("I44.0"),
      second_degree_mobitz_i |-> Some("I44.1"),
      second_degree_mobitz_ii |-> Some("I44.1"),
      third_degree_av_block |-> Some("I44.2"),
      wpw |-> Some("I45.6"),
      lvh |-> Some("I51.7"),
      rvh |-> Some("I51.7"),
      inferior_stemi |-> Some("I21.19"),
      anterior_stemi |-> Some("I21.09"),
      lateral_stemi |-> Some("I21.29"),
      posterior_stemi |-> Some("I21.29"),
      nstemi |-> Some("I21.4"),
      early_repolarization |-> None,
      pericarditis |-> Some("I30.9"),
      digitalis_effect |-> Some("T46.0X5A"),
      hypokalemia |-> Some("E87.6"),
      hyperkalemia |-> Some("E87.5") ]

StaticTables ==
    [ ARCHETYPE_REGISTRY |-> ARCHETYPE_REGISTRY,
      AMBIGUITY_PATTERNS |-> AMBIGUITY_PATTERNS,
      ICD10 |-> ICD10 ]

\* the locals of the run of the current thread
Locals ==
    [ pc |-> pc, request |-> request, stage_status |-> stage_status,
      ecg_output |-> ecg_output, cardio_output |-> cardio_output,
      physio_output |-> physio_output, artist_output |-> artist_output,
      invoked |-> invoked, timings |-> timings, errors |-> errors,
      warnings |-> warnings, degraded |-> degraded, result |-> result,
      raised |-> raised ]

\* the locals of the run of thread t
LocalsOf(t) == IF t = current THEN Locals ELSE frames[t]

\* the locals of a thread that has not called run
IdleLocals ==
    [ pc |-> "idle", request |-> "none", stage_status |-> << >>,
      ecg_output |-> << >>, cardio_output |-> << >>, physio_output |-> << >>,
      artist_output |-> << >>, invoked |-> {}, timings |-> {}, errors |-> << >>,
      warnings |-> << >>, degraded |-> FALSE, result |-> << >>, raised |-> FALSE ]

\* the part of the environment that the concurrent runs are checked for:
\* an image or nothing as input, one digitization, one Measurements, and
\* "boom" as the text of every exception, which leaves the agent
ConcurrentScope ==
    /\ request \in {"image", "none"}
    /\ \A stage \in DOMAIN stage_status :
           stage_status[stage] = "failed" => request = "none"
    /\ \A output \in {ecg_output, cardio_output, physio_output, artist_output} :
           output # << >> =>
               \/ IsNone(output.error)
               \/ Get(output.error) \in
                      { <<"b","o","o","m">>, <<"N","o"," ","i","m","a","g","e"," ","o","r"," ","P","D","F"," ","p","r","o","v","i","d","e","d">>, <<"N","o"," ","m","e","a","s","u","r","e","m","e","n","t","s"," ","i","n","p","u","t">>,
                        <<"M","i","s","s","i","n","g"," ","i","n","p","u","t"," ","d","a","t","a">> }
    /\ \A w \in DOMAIN warnings : ~ StartsWith(warnings[w], <<"C","a","l","i","b","r","a","t","i","o","n">>)
    /\ ecg_output # << >> =>
           /\ IsNone(ecg_output.digitized_ecg)
                  \/ Get(ecg_output.digitized_ecg) = DigitizedECG(13, 13, TRUE)
           /\ IsNone(ecg_output.measurements)
                  \/ LET regions == detect_injury_regions(Get(ecg_output.measurements))
                      IN  Len(regions) = 1 /\ regions[1].location = "inferior"

InitConcurrent ==
    /\ PipelineIdle
    /\ ClassifierIdle
    /\ StoreIdle
    /\ GridIdle
    /\ MedicalIdle
    /\ current = "t1"
    /\ frames = [t \in Threads |-> IdleLocals]
    /\ tables = StaticTables

\* a step of the run of the current thread
Step ==
    /\ current \in Threads
    /\ Next
    /\ ConcurrentScope'

Resume_shared_warnings(frame) ==
    /\ pc' = frame.pc
    /\ request' = frame.request
    /\ stage_status' = frame.stage_status
    /\ ecg_output' = frame.ecg_output
    /\ cardio_output' = frame.cardio_output
    /\ physio_output' = frame.physio_output
    /\ artist_output' = frame.artist_output
    /\ invoked' = frame.invoked
    /\ timings' = frame.timings
    /\ errors' = frame.errors
    /\ warnings' = warnings
    /\ degraded' = frame.degraded
    /\ result' = frame.result
    /\ raised' = frame.raised
\* the run of a thread goes on with its own locals
Resume(frame) ==
    /\ pc' = frame.pc
    /\ request' = frame.request
    /\ stage_status' = frame.stage_status
    /\ ecg_output' = frame.ecg_output
    /\ cardio_output' = frame.cardio_output
    /\ physio_output' = frame.physio_output
    /\ artist_output' = frame.artist_output
    /\ invoked' = frame.invoked
    /\ timings' = frame.timings
    /\ errors' = frame.errors
    /\ warnings' = frame.warnings
    /\ degraded' = frame.degraded
    /\ result' = frame.result
    /\ raised' = frame.raised

\* the scheduler suspends the current thread and lets thread t run
Switch ==
    \E t \in Threads \ {current} :
        /\ current \in Threads
        /\ frames' = [frames EXCEPT ![current] = Locals, ![t] = IdleLocals]
        /\ current' = t
        /\ Resume(frames[t])
        /\ UNCHANGED <<tables, classify_vars, store_vars, grid, medical>>

NextConcurrent ==
    \/ Step
    \/ Switch

SpecConcurrent == InitConcurrent /\ [][NextConcurrent]_vars

-----------------------------------------------------------------------------
(* digitizer/grid_detector.py: remove_grid_combined.  An image is its number
   of pixels and the number of them darker than the ink threshold
   (255 - value > 20); what a removal stage leaves of the ink is the
   environment's choice. *)

\* the pixels of a lead crop
CropPixels == {200, 1000}

\* the ink pixels that a stage can leave
InkPixels == {0, 1, 4, 5}

Image(stage, pixels, ink) == [stage |-> stage, pixels |-> pixels, ink |-> ink]

has_signal_strict(image) ==
    LET total == IF image.pixels > 1 THEN image.pixels ELSE 1
    IN  image.ink * 1000 > 5 * total
\* signal_pixels / max(total_pixels, 1) >= 0.005
has_signal(image) ==
    LET total == IF image.pixels > 1 THEN image.pixels ELSE 1
    IN  image.ink * 1000 >= 5 * total

\* bgr_image: "none" (not given), "gray" (two-dimensional) or "bgr"
InitGrid ==
    /\ PipelineIdle
    /\ ClassifierIdle
    /\ StoreIdle
    /\ ThreadsIdle
    /\ MedicalIdle
    /\ grid \in [ pc : {"color_aware"}, bgr_image : {"none", "gray", "bgr"},
                  gray : {Image("raw", p, i) : p \in CropPixels, i \in {5, 100}},
                  attempts : {<< >>}, returned : {<< >>} ]

\* a stage returned `cleaned`: return it if the signal is left, else go on
\* with stage `next`, or return the raw crop after the last stage
Attempt(cleaned, next) ==
    /\ grid' = [grid EXCEPT
                   !.attempts = Append(@, cleaned),
                   !.pc = IF has_signal(cleaned) \/ next = "raw" THEN "done" ELSE next,
                   !.returned = IF has_signal(cleaned) THEN Some(cleaned)
                                ELSE IF next = "raw" THEN Some(grid.gray)
                                ELSE << >>]
    /\ UNCHANGED <<pipeline_vars, classify_vars, store_vars, thread_vars, medical>>

\* Strategy 1, lines 201-207
RemoveGridColorAware ==
    /\ grid.pc = "color_aware"
    /\ IF grid.bgr_image = "bgr"
       THEN \E ink \in InkPixels :
                Attempt(Image("color_aware", grid.gray.pixels, ink), "morphological")
       ELSE /\ grid' = [grid EXCEPT !.pc = "morphological"]
            /\ UNCHANGED <<pipeline_vars, classify_vars, store_vars, thread_vars, medical>>

\* Strategy 2, lines 210-215
RemoveGridMorphological ==
    /\ grid.pc = "morphological"
    /\ \E ink \in InkPixels :
           Attempt(Image("morphological", grid.gray.pixels, ink), "frequency")

\* Strategy 3 and 4, lines 218-226
RemoveGridFrequency ==
    /\ grid.pc = "frequency"
    /\ \E ink \in InkPixels :
           Attempt(Image("frequency", grid.gray.pixels, ink), "raw")

NextGrid ==
    \/ RemoveGridColorAware
    \/ RemoveGridMorphological
    \/ RemoveGridFrequency

SpecGrid == InitGrid /\ [][NextGrid]_vars

-----------------------------------------------------------------------------
(* agents/orchestrator/medical-orchestrator.py: MedicalOrchestrator.  The
   four simulated agents return fixed data and never raise, so every
   AgentResult has status SUCCESS; what the validation hook (a subprocess
   outside the repository) answers is the environment's choice. *)

ValidationResult(status, blocking, error) ==
    [status |-> status, blocking |-> blocking, error |-> error]

\* the dict that call_validation_hook returns: json.loads of the hook's
\* output, or {"status": "VALIDATION_FAILED", "error": ...} when the hook
\* exits with an error; a key that is absent is None
HookResults ==
    [ status   : {None, Some("VALIDATION_PASSED"), Some("VALIDATION_FAILED")},
      blocking : {None, Some(TRUE), Some(FALSE)},
      error    : {None, Some("hook error")} ]

\* the body shared by validate_medical_output, validate_visual_medical_sync
\* and validate_educational_accuracy; hook_result["status"] of a dict without
\* the key raises, which the except branch turns into a blocking failure
validate_with_hook(hook_result, message) ==
    IF IsNone(hook_result.status)
    THEN ValidationResult("VALIDATION_FAILED", TRUE, Some(message))
    ELSE IF Get(hook_result.status) = "VALIDATION_PASSED"
    THEN ValidationResult("VALIDATION_PASSED", FALSE, None)
    ELSE ValidationResult("VALIDATION_FAILED",
                          IF IsNone(hook_result.blocking) THEN TRUE
                          ELSE Get(hook_result.blocking),
                          hook_result.error)

validate_medical_output(hook_result) ==
    validate_with_hook(hook_result, "Validation error")

validate_visual_medical_sync(hook_result) ==
    validate_with_hook(hook_result, "Visual sync validation error")

validate_educational_accuracy(hook_result) ==
    validate_with_hook(hook_result, "Educational validation error")

validate_complete_integration_unchecked(validation_status) ==
    ValidationResult("VALIDATION_PASSED", FALSE, None)
\* all([...]) over the three flags of shared_context["validation_status"]
validate_complete_integration(validation_status) ==
    IF /\ validation_status.medical_accuracy
       /\ validation_status.visual_sync
       /\ validation_status.educational_accuracy
    THEN ValidationResult("VALIDATION_PASSED", FALSE, None)
    ELSE ValidationResult("VALIDATION_FAILED", TRUE,
                          Some("Not all component validations passed"))

\* if validation.blocking and validation.status != "VALIDATION_PASSED"
Blocks(validation) ==
    validation.blocking /\ validation.status # "VALIDATION_PASSED"

create_success_response(shared_context) ==
    [ status |-> "SUCCESS",
      error |-> None,
      validation_failure |-> None,
      shared_context |-> shared_context,
      ready_for_deployment |-> TRUE ]

create_error_response(error_message, validation_result, shared_context) ==
    [ status |-> "FAILED",
      error |-> Some(error_message),
      validation_failure |-> validation_result,
      shared_context |-> shared_context,
      ready_for_deployment |-> FALSE ]

\* shared_context["validation_status"] as coordinate_simulation initialises it
InitialValidationStatus ==
    [ medical_accuracy |-> FALSE, visual_sync |-> FALSE,
      educational_accuracy |-> FALSE, integration_complete |-> FALSE ]

\* MedicalOrchestrator.__init__; validation_1 .. final_validation are the
\* locals of coordinate_simulation
InitMedical ==
    /\ PipelineIdle
    /\ ClassifierIdle
    /\ StoreIdle
    /\ ThreadsIdle
    /\ GridIdle
    /\ medical = [ pc |-> "idle",
                   validation_status |-> InitialValidationStatus,
                   agent_results |-> {},
                   validation_1 |-> None,
                   validation_2 |-> None,
                   validation_3 |-> None,
                   final_validation |-> None,
                   response |-> None ]

\* lines 51-73: a call of coordinate_simulation on the orchestrator, which
\* keeps agent_results from the calls before
CoordinateSimulation ==
    /\ medical.pc \in {"idle", "returned"}
    /\ medical' = [medical EXCEPT
                      !.pc = "medical",
                      !.validation_status = InitialValidationStatus,
                      !.validation_1 = None,
                      !.validation_2 = None,
                      !.validation_3 = None,
                      !.final_validation = None,
                      !.response = None]
    /\ UNCHANGED <<pipeline_vars, classify_vars, store_vars, thread_vars, grid>>

\* lines 75-80: Step 1
MedicalAnalysis ==
    /\ medical.pc = "medical"
    /\ \E hook_result \in HookResults :
         LET validation_1 == validate_medical_output(hook_result)
             status == [medical.validation_status EXCEPT
                           !.medical_accuracy =
                               validation_1.status = "VALIDATION_PASSED"]
         IN  medical' = [medical EXCEPT
                 !.agent_results = @ \cup {"medical"},
                 !.validation_status = status,
                 !.validation_1 = Some(validation_1),
                 !.pc = IF Blocks(validation_1) THEN "returned" ELSE "visualization",
                 !.response =
                     IF Blocks(validation_1)
                     THEN Some(create_error_response(
                              "Medical analysis validation failed",
                              Some(validation_1), status))
                     ELSE None]
    /\ UNCHANGED <<pipeline_vars, classify_vars, store_vars, thread_vars, grid>>

\* lines 82-87: Step 2
Visualization ==
    /\ medical.pc = "visualization"
    /\ \E hook_result \in HookResults :
         LET validation_2 == validate_visual_medical_sync(hook_result)
             status == [medical.validation_status EXCEPT
                           !.visual_sync =
                               validation_2.status = "VALIDATION_PASSED"]
         IN  medical' = [medical EXCEPT
                 !.agent_results = @ \cup {"visualization"},
                 !.validation_status = status,
                 !.validation_2 = Some(validation_2),
                 !.pc = IF Blocks(validation_2) THEN "returned" ELSE "education",
                 !.response =
                     IF Blocks(validation_2)
                     THEN Some(create_error_response(
                              "3D visualization validation failed",
                              Some(validation_2), status))
                     ELSE None]
    /\ UNCHANGED <<pipeline_vars, classify_vars, store_vars, thread_vars, grid>>

\* lines 89-94: Step 3
EducationalContent ==
    /\ medical.pc = "education"
    /\ \E hook_result \in HookResults :
         LET validation_3 == validate_educational_accuracy(hook_result)
             status == [medical.validation_status EXCEPT
                           !.educational_accuracy =
                               validation_3.status = "VALIDATION_PASSED"]
         IN  medical' = [medical EXCEPT
                 !.agent_results = @ \cup {"education"},
                 !.validation_status = status,
                 !.validation_3 = Some(validation_3),
                 !.pc = IF Blocks(validation_3) THEN "returned" ELSE "interface",
                 !.response =
                     IF Blocks(validation_3)
                     THEN Some(create_error_response(
                              "Educational content validation failed",
                              Some(validation_3), status))
                     ELSE None]
    /\ UNCHANGED <<pipeline_vars, classify_vars, store_vars, thread_vars, grid>>

\* lines 96-112: Step 4, the final validation and the response
FrontendIntegration ==
    /\ medical.pc = "interface"
    /\ LET final_validation ==
               validate_complete_integration(medical.validation_status)
           status == [medical.validation_status EXCEPT
                         !.integration_complete =
                             final_validation.status = "VALIDATION_PASSED"]
       IN  medical' = [medical EXCEPT
               !.agent_results = @ \cup {"frontend"},
               !.validation_status = status,
               !.final_validation = Some(final_validation),
               !.pc = "returned",
               !.response =
                   IF Blocks(final_validation)
                   THEN Some(create_error_response(
                            "Final integration validation failed",
                            Some(final_validation), status))
                   ELSE Some(create_success_response(status))]
    /\ UNCHANGED <<pipeline_vars, classify_vars, store_vars, thread_vars, grid>>

NextMedical ==
    \/ CoordinateSimulation
    \/ MedicalAnalysis
    \/ Visualization
    \/ EducationalContent
    \/ FrontendIntegration

SpecMedical == InitMedical /\ [][NextMedical]_vars

-----------------------------------------------------------------------------
(* Properties of Orchestrator.run (specification Spec) *)

\* C1: every call of run, whatever its input and whatever each stage does
\* (succeeds, returns success=False, raises, is skipped), returns a
\* PipelineResult with a visualization, and no exception leaves run.
C1_RunAlwaysReturnsVisualization ==
    pc = "done" =>
        /\ raised = FALSE
        /\ ~ IsNone(result)
        /\ "interpretation" \in DOMAIN Get(result).visualization

\* a run without input in which every stage failed or was skipped has returned
C1_Witness ==
    /\ pc = "done"
    /\ request = "none"
    /\ ~ IsNone(result)
    /\ stage_status["ecg_specialist"] = "failed"
    /\ stage_status["artist"] = "skipped"

\* C2: in the result, pipeline_degraded is true exactly when some stage
\* failed, crashed or was skipped, and agent_errors has an entry for exactly
\* those stages.
C2_DegradedIffStageNotOk ==
    (pc = "done" /\ ~ IsNone(result)) =>
        LET not_ok == {s \in StageNames : stage_status[s] # "ok"}
        IN  /\ Get(result).visualization.pipeline_degraded = (not_ok # {})
            /\ DOMAIN Get(result).agent_errors = not_ok

\* a run whose physiologist crashed while the other three stages succeeded
C2_Witness ==
    /\ pc = "done"
    /\ ~ IsNone(result)
    /\ stage_status["physiologist"] = "crashed"
    /\ stage_status["artist"] = "ok"
    /\ DOMAIN Get(result).agent_errors = {"physiologist"}

\* C3: once the ECG specialist has ended without measurements, no process()
\* of the three downstream agents is invoked in that run; each downstream
\* stage that has run was skipped and is recorded as skipped.
C3_NoMeasurementsSkipsDownstream ==
    (pc \in {"cardiologist", "physiologist", "artist", "assemble", "done"}
        /\ IsNone(ecg_output.measurements)) =>
        /\ invoked \cap {"cardiologist", "physiologist", "artist"} = {}
        /\ \A s \in DOMAIN stage_status \ {"ecg_specialist"} :
              /\ stage_status[s] = "skipped"
              /\ s \in DOMAIN errors
              /\ StartsWith(errors[s], <<"S","k","i","p","p","e","d">>)
        /\ pc = "done" => DOMAIN stage_status = StageNames

\* the measurement engine raised: the run ended with the three downstream
\* stages skipped
C3_Witness ==
    /\ pc = "done"
    /\ ~ IsNone(ecg_output.digitized_ecg)
    /\ IsNone(ecg_output.measurements)
    /\ stage_status["cardiologist"] = "skipped"
    /\ stage_status["physiologist"] = "skipped"
    /\ stage_status["artist"] = "skipped"

\* C4: when the ECG specialist produced no measurements the returned contract
\* is the fallback contract: the degraded primary label, archetype
\* normal_sinus, no activation events, every scalar measurement 0 with
\* confidence 0, paper speed 25 and amplitude scale 10, the list of
\* underdetermined parameters declaring all parameters, degraded true.
C4_FallbackContract ==
    (pc = "done" /\ ~ IsNone(result) /\ IsNone(ecg_output.measurements)) =>
        LET viz == Get(result).visualization
            m   == viz.measurements
            Zero(mv) == mv.value = 0 /\ mv.confidence = 0
        IN  /\ viz.interpretation.primary_diagnosis
                   = <<"I","n","t","e","r","p","r","e","t","a","t","i","o","n"," ","u","n","a","v","a","i","l","a","b","l","e"," ","EMDASH"," ","p","i","p","e","l","i","n","e"," ","d","e","g","r","a","d","e","d">>
            /\ viz.mechanical_archetype = "normal_sinus"
            /\ viz.activation_sequence = << >>
            /\ Zero(m.rate) /\ Zero(m.qrs_duration) /\ Zero(m.qt_interval)
            /\ Zero(m.qtc_bazett) /\ Zero(m.qtc_fridericia) /\ Zero(m.axis_degrees)
            /\ IsNone(m.pr_interval) \/ Zero(Get(m.pr_interval))
            /\ viz.ecg_metadata.paper_speed = 25
            /\ viz.ecg_metadata.amplitude_scale = 10
            /\ Len(viz.uncertainty.underdetermined_parameters) = 1
            /\ StartsWith(viz.uncertainty.underdetermined_parameters[1],
                          <<"A","l","l"," ","p","a","r","a","m","e","t","e","r","s">>)
            /\ viz.pipeline_degraded = TRUE

\* the fallback was returned for a run whose ECG specialist crashed
C4_Witness ==
    /\ pc = "done"
    /\ ~ IsNone(result)
    /\ stage_status["ecg_specialist"] = "crashed"
    /\ IsNone(ecg_output.measurements)
    /\ Get(result).visualization.measurements.rate.method = "fallback"

\* C5: a returned contract with pipeline_degraded = true has warnings, and
\* among them, for every stage that failed, crashed or was skipped, one that
\* names the stage.
C5_DegradedHasWarningPerStage ==
    (pc = "done" /\ ~ IsNone(result)
        /\ Get(result).visualization.pipeline_degraded) =>
        LET ws == Get(result).visualization.pipeline_warnings
        IN  /\ ws # << >>
            /\ \A s \in StageNames :
                  stage_status[s] # "ok" =>
                      \E i \in DOMAIN ws : StartsWith(ws[i], StageLabel[s])

\* a degraded run in which the cardiologist failed and the two stages after
\* it were skipped
C5_Witness ==
    /\ pc = "done"
    /\ ~ IsNone(result)
    /\ Get(result).visualization.pipeline_degraded
    /\ stage_status["ecg_specialist"] = "ok"
    /\ stage_status["cardiologist"] = "failed"
    /\ stage_status["physiologist"] = "skipped"
    /\ stage_status["artist"] = "skipped"

\* C9: in every contract the pipeline emits, primary_diagnosis begins with
\* "Pattern consistent with" or "Finding suggestive of", or it is one of the
\* two sentinels.
C9_PrimaryDiagnosisPhrasing ==
    (pc = "done" /\ ~ IsNone(result)) =>
        LET primary == Get(result).visualization.interpretation.primary_diagnosis
        IN  \/ StartsWith(primary, <<"P","a","t","t","e","r","n"," ","c","o","n","s","i","s","t","e","n","t"," ","w","i","t","h">>)
            \/ StartsWith(primary, <<"F","i","n","d","i","n","g"," ","s","u","g","g","e","s","t","i","v","e"," ","o","f">>)
            \/ primary = <<"I","n","d","e","t","e","r","m","i","n","a","t","e"," ","EMDASH"," ","i","n","s","u","f","f","i","c","i","e","n","t"," ","d","a","t","a">>
            \/ primary = <<"I","n","t","e","r","p","r","e","t","a","t","i","o","n"," ","u","n","a","v","a","i","l","a","b","l","e"," ","EMDASH"," ","p","i","p","e","l","i","n","e"," ","d","e","g","r","a","d","e","d">>

\* C10: in every contract a run returns, the fallback included,
\* display_contract.modeled_assumption has a statement that refers to the
\* activation sequence.
C10_ModeledAssumptionNamesActivation ==
    (pc = "done" /\ ~ IsNone(result)) =>
        LET stmts == Get(result).visualization.display_contract.modeled_assumption
        IN  \E i \in DOMAIN stmts : Contains(Lower(stmts[i]), <<"a","c","t","i","v","a","t","i","o","n"," ","s","e","q","u","e","n","c","e">>)

-----------------------------------------------------------------------------
(* Properties of classify (specification SpecClassify) *)

\* C6: the differentials that classify returns are in non-increasing order
\* of their emitted probability.
C6_DifferentialsSorted ==
    cpc = "done" =>
        LET diffs == Get(cout).differentials
        IN  \A i \in 1..(Len(diffs) - 1) :
                diffs[i].probability >= diffs[i + 1].probability

\* classify returned three or more differentials of three distinct
\* probabilities
C6_Witness ==
    /\ cpc = "done"
    /\ Len(Get(cout).differentials) >= 3
    /\ Cardinality({Get(cout).differentials[i].probability :
                       i \in DOMAIN Get(cout).differentials}) >= 3

\* C7: the tier of every emitted differential is determined by its emitted,
\* rounded probability: high from 0.7, moderate from 0.4 to below 0.7,
\* possible below 0.4.
C7_TierFollowsEmittedProbability ==
    cpc = "done" =>
        \A i \in DOMAIN Get(cout).differentials :
            LET d == Get(cout).differentials[i]
            IN  /\ (d.probability_tier = "high") = (d.probability >= 700)
                /\ (d.probability_tier = "moderate")
                       = (d.probability >= 400 /\ d.probability < 700)
                /\ (d.probability_tier = "possible") = (d.probability < 400)

\* classify emitted differentials of all three tiers, one at exactly 0.7 or
\* exactly 0.4 and one whose probability was rounded
C7_Witness ==
    /\ cpc = "done"
    /\ {Get(cout).differentials[i].probability_tier :
           i \in DOMAIN Get(cout).differentials} = {"high", "moderate", "possible"}
    /\ \E i \in DOMAIN Get(cout).differentials :
           Get(cout).differentials[i].probability \in {400, 700}
    /\ \E i \in DOMAIN Get(cout).differentials :
           Get(cout).differentials[i].probability % 25 # 0

\* C8: no differential name that classify emits contains "diagnose", in any
\* letter case.
C8_NoDiagnoseInNames ==
    cpc = "done" =>
        \A i \in DOMAIN Get(cout).differentials :
            ~ Contains(Lower(Get(cout).differentials[i].name), <<"d","i","a","g","n","o","s","e">>)

\* classify emitted ten or more differentials
C8_Witness ==
    /\ cpc = "done"
    /\ Len(Get(cout).differentials) >= 10


\* C11: the activation steps of every archetype of ARCHETYPE_REGISTRY, and the
\* events of the activation sequence built from it, are in non-decreasing
\* order of onset_ms, and none of them ends before it begins.
C11_ActivationEventsOrdered ==
    LET Ordered(events) ==
            /\ \A i \in DOMAIN events : events[i].offset_ms >= events[i].onset_ms
            /\ \A i \in DOMAIN events : \A j \in DOMAIN events :
                   i < j => events[i].onset_ms <= events[j].onset_ms
    IN  /\ \A id \in DOMAIN ARCHETYPE_REGISTRY :
               Ordered(ARCHETYPE_REGISTRY[id].activation_sequence)
        /\ (cpc = "returned" /\ cm.op = "build_activation_sequence") =>
               Ordered(Get(cout))

\* the activation sequence of the left bundle branch block archetype was built
C11_Witness ==
    /\ cpc = "returned"
    /\ cm.op = "build_activation_sequence"
    /\ cm.arg = "LBBB_typical"
    /\ Len(Get(cout)) = Len(ARCHETYPE_REGISTRY["LBBB_typical"].activation_sequence)
    /\ \E i \in DOMAIN Get(cout) : Get(cout)[i].offset_ms > Get(cout)[i].onset_ms

\* C12: find_best_archetype returns, for each of the 27 checker keys and for
\* any other key, an id of ARCHETYPE_REGISTRY, and "normal_sinus" for every
\* key that none of the checkers has.
C12_ArchetypeIdInRegistry ==
    (cpc = "returned" /\ cm.op = "find_best_archetype") =>
        /\ Get(cout) \in DOMAIN ARCHETYPE_REGISTRY
        /\ (cm.arg \notin CheckerNames => Get(cout) = "normal_sinus")

\* find_best_archetype has answered a key that no checker has
C12_Witness ==
    /\ cpc = "returned"
    /\ cm.op = "find_best_archetype"
    /\ cm.arg = "ventricular_tachycardia"
    /\ Get(cout) = "normal_sinus"

\* C13: the base probability of a checker is (met criteria / criteria) x gate,
\* where the gate of LAFB is 0.9 if the axis is below -30 degrees and else
\* 0.1, of inferior STEMI 0.9 if the ST elevation is at least 0.1 mV in at
\* least two of II, III, aVF and else 0, of anterior STEMI the same over
\* V1-V4, of LVH 0.9 if the voltage criteria are met and else 0.2; a STEMI
\* checker whose gate is not satisfied yields 0.
C13_BaseProbabilityIsGatedFraction ==
    (cpc = "returned" /\ cm.op = "checker") =>
        LET m == cm.arg.m
            c == Get(cout)
            met == Cardinality({i \in DOMAIN c.criteria : c.criteria[i]})
            Elevated(lead_names) ==
                Cardinality({i \in DOMAIN m.st_deviations :
                    /\ m.st_deviations[i].lead_name \in lead_names
                    /\ m.st_deviations[i].deviation_mv >= 100}) >= 2
            gate10 ==
                CASE cm.arg.name = "lafb" ->
                         IF m.axis_degrees.value < -30 THEN 9 ELSE 1
                  [] cm.arg.name = "inferior_stemi" ->
                         IF Elevated({"II", "III", "aVF"}) THEN 9 ELSE 0
                  [] cm.arg.name = "anterior_stemi" ->
                         IF Elevated({"V1", "V2", "V3", "V4"}) THEN 9 ELSE 0
                  [] cm.arg.name = "lvh" ->
                         IF m.lvh_voltage_criteria THEN 9 ELSE 2
        IN  /\ c.name = cm.arg.name
            /\ 10 * Len(c.criteria) * c.base_probability = met * gate10 * ProbScale
            /\ ((cm.arg.name \in {"inferior_stemi", "anterior_stemi"} /\ gate10 = 0) =>
                   c.base_probability = 0)

\* the inferior STEMI checker has scored an ECG whose ST elevation is exactly
\* 0.1 mV in the inferior leads and below it in the anterior leads
C13_Witness ==
    /\ cpc = "returned"
    /\ cm.op = "checker"
    /\ cm.arg.name = "inferior_stemi"
    /\ get_st_deviation(cm.arg.m, "II") = 100
    /\ get_st_deviation(cm.arg.m, "III") = 100
    /\ get_st_deviation(cm.arg.m, "V1") = 60
    /\ Get(cout).base_probability > 0

\* C14 as stated: rhythm is the display name of the first ranked candidate
\* among the six rhythm findings with probability >= 0.5, and the raw
\* rhythm_description of the measurements when there is none.
C14_RhythmOrRawDescription ==
    cpc = "done" =>
        LET diffs == Get(cout).differentials
            rhythm_display == {DisplayName[k] : k \in
                {"normal_sinus", "sinus_tachycardia", "sinus_bradycardia",
                 "atrial_fibrillation", "atrial_flutter", "svt"}}
            hits == {i \in DOMAIN diffs :
                        diffs[i].name \in rhythm_display /\ diffs[i].probability >= 500}
        IN  Get(cout).rhythm =
                IF hits # {} THEN diffs[CHOOSE i \in hits : \A j \in hits : i <= j].name
                ELSE cm.rhythm_description

\* C14, amended: rhythm is the display name of the first ranked candidate
\* among the six rhythm findings with probability >= 0.5; when there is none,
\* it is the sentence that the rhythm is indeterminate because the rate
\* could not be measured if the rate is 0, and otherwise the raw rhythm_description, or "Rhythm not classified" if
\* that description is empty.
C14_RhythmOrIndeterminate ==
    cpc = "done" =>
        LET diffs == Get(cout).differentials
            rhythm_display == {DisplayName[k] : k \in
                {"normal_sinus", "sinus_tachycardia", "sinus_bradycardia",
                 "atrial_fibrillation", "atrial_flutter", "svt"}}
            hits == {i \in DOMAIN diffs :
                        diffs[i].name \in rhythm_display /\ diffs[i].probability >= 500}
        IN  Get(cout).rhythm =
                IF hits # {} THEN diffs[CHOOSE i \in hits : \A j \in hits : i <= j].name
                ELSE IF cm.rate.value = 0
                THEN <<"R","h","y","t","h","m"," ","i","n","d","e","t","e","r","m","i","n","a","t","e"," ","EMDASH"," ","r","a","t","e"," ","c","o","u","l","d"," ","n","o","t"," ","b","e"," ","m","e","a","s","u","r","e","d">>
                ELSE IF cm.rhythm_description = << >> THEN <<"R","h","y","t","h","m"," ","n","o","t"," ","c","l","a","s","s","i","f","i","e","d">>
                ELSE cm.rhythm_description

\* classify has answered measurements without a rate while the checker of
\* atrial fibrillation raised, so that no rhythm finding reaches 0.5
C14_Witness ==
    /\ cpc = "done"
    /\ cfailed = {"atrial_fibrillation"}
    /\ cm.rate.value = 0
    /\ cm.rhythm_description = <<"I","n","s","u","f","f","i","c","i","e","n","t"," ","R"," ","p","e","a","k","s"," ","d","e","t","e","c","t","e","d">>
    /\ Get(cout).rhythm = <<"R","h","y","t","h","m"," ","i","n","d","e","t","e","r","m","i","n","a","t","e"," ","EMDASH"," ","r","a","t","e"," ","c","o","u","l","d"," ","n","o","t"," ","b","e"," ","m","e","a","s","u","r","e","d">>

C16_InjuryRegionIffTwoLeadsElevated ==
    (cpc = "returned" /\ cm.op = "detect_injury_regions") =>
        LET regions == Get(cout)
            st == cm.arg.st_deviations
            Above(territory) ==
                {st[i].deviation_mv : i \in
                    {j \in DOMAIN st : Territory(st[j].lead_name) = territory
                                       /\ st[j].deviation_mv > 100}}
            LeadsAbove(territory) ==
                {j \in DOMAIN st : Territory(st[j].lead_name) = territory
                                   /\ st[j].deviation_mv > 100}
        IN  /\ \A i \in DOMAIN regions :
                   regions[i].location \in {"inferior", "anterior", "lateral"}
            /\ \A i \in DOMAIN regions : \A j \in DOMAIN regions :
                   regions[i].location = regions[j].location => i = j
            /\ \A t \in {"inferior", "anterior", "lateral"} :
                   /\ (\E i \in DOMAIN regions : regions[i].location = t)
                          <=> Cardinality(LeadsAbove(t)) >= 2
                   /\ \A i \in DOMAIN regions :
                          regions[i].location = t =>
                              /\ regions[i].magnitude_mv \in Above(t)
                              /\ \A x \in Above(t) : x <= regions[i].magnitude_mv

\* an inferior region was emitted for two inferior leads above 0.1 mV by
\* different amounts while the third is at 0.1 mV exactly, and none for two
\* anterior leads at 0.1 mV exactly
C16_Witness ==
    /\ cpc = "returned"
    /\ cm.op = "detect_injury_regions"
    /\ get_st_deviation(cm.arg, "II") = 110
    /\ get_st_deviation(cm.arg, "III") = 150
    /\ get_st_deviation(cm.arg, "aVF") = 100
    /\ get_st_deviation(cm.arg, "V1") = 100
    /\ Get(cout) = << [location |-> "inferior", magnitude_mv |-> 150] >>

\* C17: assess_uncertainty emits the alternate model of a pair of
\* AMBIGUITY_PATTERNS exactly when both findings of the pair are among the
\* differentials of the classifier with a probability of at least 0.2.
C17_AlternateModelIffBothPresent ==
    (cpc = "returned" /\ cm.op = "assess_uncertainty") =>
        LET diffs == cm.arg.classifier_output.differentials
            models == Get(cout).alternate_models
            Present(key) ==
                \E i \in DOMAIN diffs :
                    diffs[i].name = DisplayName[key] /\ diffs[i].probability >= 200
        IN  \A p \in DOMAIN AMBIGUITY_PATTERNS :
                (\E i \in DOMAIN models :
                     models[i].description = AMBIGUITY_PATTERNS[p].description)
                <=> (Present(AMBIGUITY_PATTERNS[p].key1)
                        /\ Present(AMBIGUITY_PATTERNS[p].key2))

\* C18: in every contract that the Artist built, whether or not the
\* Physiologist succeeded, underdetermined_parameters names each of rate, PR,
\* QRS, QT and axis whose confidence is below 0.5, and contains the statement
\* that the internal activation sequence is reconstructed.
C18_LowConfidenceScalarsNamed ==
    (pc \in {"assemble", "done"} /\ stage_status["artist"] = "ok") =>
        LET m == Get(ecg_output.measurements)
            params == Get(artist_output.visualization)
                          .uncertainty.underdetermined_parameters
            Named(label) == \E i \in DOMAIN params : StartsWith(params[i], label)
        IN  /\ m.rate.confidence < 50 => Named(<<"H","e","a","r","t"," ","r","a","t","e">>)
            /\ (~ IsNone(m.pr_interval) /\ Get(m.pr_interval).confidence < 50)
                   => Named(<<"P","R"," ","i","n","t","e","r","v","a","l">>)
            /\ m.qrs_duration.confidence < 50 => Named(<<"Q","R","S"," ","d","u","r","a","t","i","o","n">>)
            /\ m.qt_interval.confidence < 50 => Named(<<"Q","T"," ","i","n","t","e","r","v","a","l">>)
            /\ m.axis_degrees.confidence < 50 => Named(<<"E","l","e","c","t","r","i","c","a","l"," ","a","x","i","s">>)
            /\ Named(<<"I","n","t","e","r","n","a","l"," ","a","c","t","i","v","a","t","i","o","n"," ","s","e","q","u","e","n","c","e">>)

\* C19: every MeasurementValue that compute_all_measurements returns has a
\* confidence between 0 and 1 and a non-empty method, and its confidence is 0
\* exactly when its value is the sentinel 0 of a measurement that could not
\* be produced; a rate for which fewer than two R peaks were found has
\* confidence 0.
C19_ZeroConfidenceIffNotProduced ==
    (cpc = "returned" /\ cm.op = "compute_all_measurements") =>
        LET m == Get(cout).measurements
            values == {m.rate, m.qrs_duration, m.qt_interval, m.qtc_bazett,
                       m.qtc_fridericia, m.axis_degrees}
                      \cup (IF IsNone(m.pr_interval) THEN {} ELSE {Get(m.pr_interval)})
        IN  /\ \A mv \in values :
                   /\ mv.confidence >= 0 /\ mv.confidence <= 100
                   /\ mv.method # ""
                   /\ (mv.confidence = 0 <=> mv.value = 0)
            /\ (~ IsNone(Get(cout).rate_lead) /\ Get(Get(cout).rate_lead).r_peaks < 2)
                   => m.rate.confidence = 0

\* C20: the lead from which compute_all_measurements takes the rate and the
\* lead from which it takes the PR, QRS and QT intervals are the same lead:
\* lead II when it is usable, otherwise II_rhythm when it is usable, otherwise
\* a longest usable lead.
C20_OneLeadForRateAndIntervals ==
    (cpc = "returned" /\ cm.op = "compute_all_measurements") =>
        LET leads == cm.arg
            usable == {i \in DOMAIN leads : IsNone(leads[i].failure_reason)}
            Usable(name) == \E i \in usable : leads[i].lead_name = name
            Preferred(lead) ==
                IF Usable("II") THEN ~ IsNone(lead) /\ Get(lead).lead_name = "II"
                ELSE IF Usable("II_rhythm")
                THEN ~ IsNone(lead) /\ Get(lead).lead_name = "II_rhythm"
                ELSE IF usable # {}
                THEN /\ ~ IsNone(lead)
                     /\ \E i \in usable : leads[i] = Get(lead)
                     /\ \A i \in usable : leads[i].samples <= Get(lead).samples
                ELSE IsNone(lead)
        IN  /\ Preferred(Get(cout).rate_lead)
            /\ Preferred(Get(cout).interval_lead)
            /\ Get(cout).interval_lead = Get(cout).rate_lead

\* C21: every activation event of the contract appears in the frontend view
\* with a structure id of the frontend's union (sa_node, internodal,
\* av_node, his_bundle, left_bundle, right_bundle, purkinje): one of the
\* view's two lists of events has an entry per event, in order, with such an
\* id.
C21_EveryEventInCoarseUnion ==
    (cpc = "returned" /\ cm.op = "adapt_to_frontend_viz_params") =>
        LET view   == Get(cout)
            events == cm.arg.activation_sequence
            union  == {"sa_node", "internodal", "av_node", "his_bundle",
                       "left_bundle", "right_bundle", "purkinje"}
            raw    == view.activation_sequence
            steps  == view.conduction_system.sequence
        IN  \/ /\ Len(raw) = Len(events)
               /\ \A i \in DOMAIN raw :
                      /\ raw[i].onset_ms = events[i].onset_ms
                      /\ raw[i].structure_id \in union
            \/ /\ Len(steps) = Len(events)
               /\ \A i \in DOMAIN steps :
                      /\ steps[i].onset_ms = events[i].onset_ms
                      /\ steps[i].structure \in union

\* C28: every phase of phase_boundaries has start_ms <= end_ms, and p_wave,
\* pr_segment, qrs, st_segment, t_wave follow one another without overlap,
\* for PR absent or in (80, 400), QRS 0 or in (40, 250), QT 0 or in (200, 700).
C28_PhasesOrderedAndConsecutive ==
    (cpc = "returned" /\ cm.op = "adapt_to_frontend_viz_params") =>
        LET ph    == Get(cout).phase_boundaries
            order == << ph.p_wave, ph.pr_segment, ph.qrs, ph.st_segment, ph.t_wave >>
        IN  /\ \A i \in DOMAIN order : order[i].start_ms <= order[i].end_ms
            /\ \A i \in 1..(Len(order) - 1) : order[i].end_ms = order[i + 1].start_ms

\* C22: a save of a new id into a store that holds max_sessions sessions
\* evicts exactly one session, the one whose most recent save or load is the
\* oldest.
C22_EvictsLeastRecentlyUsed ==
    ( /\ last_call # << >>
      /\ last_call.op = "save"
      /\ Len(last_call.store) >= max_sessions
      /\ last_call.session_id \notin Keys(last_call.store) ) =>
        Keys(last_call.store) \ Keys(store) = {Head(last_call.recency)}

\* C29: the store never holds more than max_sessions sessions, and a save of
\* an id that is stored replaces its data, keeps every other entry and
\* evicts none.
C29_BoundedAndReplaceInPlace ==
    /\ Len(store) <= max_sessions
    /\ ( /\ last_call # << >>
         /\ last_call.op = "save"
         /\ last_call.session_id \in Keys(last_call.store) ) =>
           /\ Keys(store) = Keys(last_call.store)
           /\ load(store, last_call.session_id) = Some(last_call.returned)
           /\ \A id \in Keys(store) \ {last_call.session_id} :
                  load(store, id) = load(last_call.store, id)

\* a full store took a save of one of its ids with other data
C29_Witness ==
    /\ last_call # << >>
    /\ last_call.op = "save"
    /\ Len(last_call.store) = max_sessions
    /\ max_sessions >= 2
    /\ last_call.session_id \in Keys(last_call.store)
    /\ load(last_call.store, last_call.session_id) # Some(last_call.returned)
    /\ Len(store) = max_sessions

C24_FirstPassingStageReturned ==
    grid # << >> =>
        LET Passes(image) == 1000 * image.ink >= 5 * image.pixels
            order == IF grid.bgr_image = "bgr"
                     THEN << "color_aware", "morphological", "frequency" >>
                     ELSE << "morphological", "frequency" >>
            tried == [i \in DOMAIN grid.attempts |-> grid.attempts[i].stage]
            last  == grid.attempts[Len(grid.attempts)]
        IN  /\ Len(tried) <= Len(order)
            /\ \A i \in DOMAIN tried : tried[i] = order[i]
            /\ \A i \in 1..(Len(tried) - 1) : ~ Passes(grid.attempts[i])
            /\ grid.pc = "done" =>
                   /\ tried # << >>
                   /\ IF Passes(last) THEN grid.returned = Some(last)
                      ELSE /\ last.stage = "frequency"
                           /\ grid.returned = Some(grid.gray)
            /\ grid.pc # "done" => grid.returned = << >>

\* the colour-aware and the morphological stage failed the post-check and
\* the frequency stage passed it with exactly 0.5% of the pixels
C24_Witness ==
    /\ grid # << >>
    /\ grid.pc = "done"
    /\ Len(grid.attempts) = 3
    /\ grid.attempts[3].ink * 200 = grid.attempts[3].pixels
    /\ grid.returned = Some(grid.attempts[3])

\* C25: in every contract that is not the fallback, mechanical_archetype is
\* the id of the archetype whose steps are the activation_sequence of the
\* contract, also when the Physiologist failed and the Artist ran with the
\* default id.
C25_ArchetypeNamesActivationSequence ==
    (pc = "done" /\ ~ IsNone(result) /\ stage_status["artist"] = "ok") =>
        LET viz == Get(result).visualization
        IN  /\ viz.mechanical_archetype \in DOMAIN ARCHETYPE_REGISTRY
            /\ viz.activation_sequence =
                   build_activation_sequence(ARCHETYPE_REGISTRY[viz.mechanical_archetype])

\* C26: a contract whose differentials hold the inferior STEMI finding with
\* probability above 0.5 has an injury current region "inferior", and one
\* with the anterior STEMI finding above 0.5 a region "anterior", also when
\* the ST deviations are exactly 0.1 mV.
C26_StemiHasInjuryRegion ==
    (cpc = "returned" /\ cm.op = "build_visualization_parameters") =>
        LET viz     == Get(cout)
            diffs   == viz.interpretation.differentials
            regions == viz.repolarization.injury_current_regions
            Reported(checker) ==
                \E i \in DOMAIN diffs : /\ diffs[i].name = DisplayName[checker]
                                        /\ diffs[i].probability > 500
            Region(location) ==
                \E i \in DOMAIN regions : regions[i].location = location
        IN  /\ Reported("inferior_stemi") => Region("inferior")
            /\ Reported("anterior_stemi") => Region("anterior")

\* C27: when no checker raises, classify returns at least one differential and
\* the primary finding is the name of the first differential; the
\* "Indeterminate" fallback is never the primary finding of such a call.
C27_PrimaryIsTopDifferential ==
    (cpc = "done" /\ cfailed = {}) =>
        LET out == Get(cout)
        IN  /\ Len(out.differentials) >= 1
            /\ out.primary_finding = out.differentials[1].name
            /\ out.primary_finding # <<"I","n","d","e","t","e","r","m","i","n","a","t","e"," ","EMDASH"," ","i","n","s","u","f","f","i","c","i","e","n","t"," ","d","a","t","a">>

\* a call without a failing checker whose differentials hold, below the top
\* one, the left bundle branch block candidate at its floor of 0.075
C27_Witness ==
    /\ cpc = "done"
    /\ cfailed = {}
    /\ LET diffs == Get(cout).differentials
       IN  /\ Len(diffs) >= 2
           /\ diffs[1].name # DisplayName["lbbb"]
           /\ \E i \in DOMAIN diffs : /\ diffs[i].name = DisplayName["lbbb"]
                                      /\ diffs[i].probability = 75
           /\ Get(cout).primary_finding = diffs[1].name

\* C30: a run of coordinate_simulation that returned SUCCESS, or
\* ready_for_deployment = true, had its medical, visual-sync and educational
\* validations all return VALIDATION_PASSED; a run in which one of them
\* failed, blocking or not, returned FAILED with ready_for_deployment = false.
C30_SuccessOnlyIfAllValidationsPassed ==
    (medical # << >> /\ medical.pc = "returned") =>
        LET response == Get(medical.response)
            component == {medical.validation_1, medical.validation_2,
                          medical.validation_3}
            Passed(v) == ~ IsNone(v) /\ Get(v).status = "VALIDATION_PASSED"
            Failed(v) == ~ IsNone(v) /\ Get(v).status # "VALIDATION_PASSED"
        IN  /\ (response.status = "SUCCESS" \/ response.ready_for_deployment)
                   => \A v \in component : Passed(v)
            /\ (\E v \in component : Failed(v))
                   => /\ response.status = "FAILED"
                      /\ ~ response.ready_for_deployment

\* a run whose medical validation failed without blocking, whose later agents
\* ran and whose later validations passed, has returned
C30_Witness ==
    /\ medical # << >>
    /\ medical.pc = "returned"
    /\ Get(medical.validation_1).status = "VALIDATION_FAILED"
    /\ ~ Get(medical.validation_1).blocking
    /\ ~ IsNone(medical.validation_3)
    /\ Get(medical.validation_2).status = "VALIDATION_PASSED"
    /\ Get(medical.validation_3).status = "VALIDATION_PASSED"
    /\ medical.agent_results = {"medical", "visualization", "education", "frontend"}
    /\ Get(medical.response).status = "FAILED"
=============================================================================
